---- MODULE Spec2Model ----
(***************************************************************************)
(* Model of the declarative environment-configuration loaders of pelorus   *)
(* (src/exporters/pelorus/config).  The repository holds several drafts of *)
(* the loader; each draft is modelled as the code has it:                  *)
(*   "construct"     EnvironmentConfigLoader.construct  (config/loading/env.py) *)
(*   "load_and_log"  load_and_log / EnvFinder           (config/next.py)   *)
(*   "load"          load                               (config/loading.py)*)
(*   "EnvVars"       EnvVars._load                      (config/loading/env.py) *)
(* One behaviour is one call of one draft on one schema, one environment   *)
(* snapshot and one override map.  A loop over the fields of the schema is *)
(* one step per iteration; what follows the loop is one more step.         *)
(***************************************************************************)
EXTENDS Naturals, Sequences, FiniteSets, TLC

VARIABLES
    impl,            \* which draft is being called
    schema,          \* attrs.fields(cls) / dataclasses.fields(cls): the field descriptors
    env,             \* the `env` mapping passed to the call (config_env for EnvVars)
    osenv,           \* the process environment, os.environ
    other,           \* the `other` override map passed to the call
    default_keyword, \* the configured "use the default" keyword
    pc,              \* index in schema of the next field of the loop
    status,          \* "loading", then how the call ended
    kwargs,          \* construct: kwargs.data; load: field_args; EnvVars: the value
    value_sources,   \* construct: value_sources.data; EnvVars: the source
    missing,         \* construct, load: the list `missing`
    results,         \* load_and_log: the dict `results`
    any_errors,      \* load_and_log: the flag `any_errors`
    printed,         \* load_and_log: the lines given to print, in order
    instance,        \* the constructed configuration instance (field name -> value)
    instance_sources,\* construct: what setattr stores on the instance
    raised,          \* the exception that left the call, if one did
    reads,           \* every lookup of a key in a mapping, in order:
                     \* <<mapping, key, field the lookup was made for>>
    fn,              \* the function applied on its own, "none" inside a load
    arg,             \* its arguments
    ret,             \* what it returned or raised, once applied
    heap,            \* the objects made by default factories, in the order they were made
    objects,         \* field name -> index in heap of the object its factory made, this load
    first_objects,   \* the same for the load made before this one, if one was
    load_no,         \* 1 in the first load of the arguments, 2 in the second
    data,            \* NothingDict under test: self.data, oldest entry first
    session,         \* GitHub as the session sees it: URL -> the response to a GET
    start_url,       \* paginate_github_with_page: its argument
    url,             \* its local `url`
    last_url,        \* its local `last_url`
    response,        \* its local `response`
    requested,       \* the URLs session.get was called with, in order
    yielded,         \* the responses of the pages yielded, in order
    gen,             \* the generator: "created", "suspended" at its yield, "done", "raised"
    escaped          \* the exception that left the generator, if one did

loaderVars == <<impl, schema, env, osenv, other, default_keyword, pc, status,
                kwargs, value_sources, missing, results, any_errors, printed,
                instance, instance_sources, raised, reads>>
callVars == <<fn, arg, ret>>
heapVars == <<heap, objects, first_objects, load_no>>
dictVars == <<data>>
pageVars == <<session, start_url, url, last_url, response, requested, yielded,
              gen, escaped>>
vars == <<loaderVars, callVars, heapVars, dictVars, pageVars>>

(***************************************************************************)
(* Values.  Every Python value the loaders handle is a string here; the    *)
(* sentinels are strings no environment holds.                             *)
(***************************************************************************)
NOTHING == "<NOTHING>"            \* attrs.NOTHING
MISSING == "<MISSING>"            \* dataclasses.MISSING
None == "<None>"                  \* Python's None
DefaultValue == "<DefaultValue>"  \* an instance of loading.py's DefaultValue
EmptyTuple == "<()>"              \* the empty tuple `()`
EmptyMap == [n \in {} |-> ""]

\* pelorus.utils.DEFAULT_VAR_KEYWORD, taken when PELORUS_DEFAULT_KEYWORD is unset.
_DEFAULT_KEYWORD == "default"

(***************************************************************************)
(* Bounds of the inputs.                                                   *)
(***************************************************************************)
MaxLookups == 2                   \* longest declared env lookup list

ClassName == "Cfg"                \* cls.__name__
FieldNames == <<"ab", "b">>       \* the schema's field names, in declaration order
LookupNames == {"A", "B"}         \* names a lookup list may declare
EnvNames == {"A", "B", "AB"}      \* names an environment may hold
DefaultKeywords == {_DEFAULT_KEYWORD}
EnvValues == {"", "v"} \cup DefaultKeywords
OtherValues == {"o"}              \* an object given through `other`
Impls == {"construct", "load_and_log", "load", "EnvVars"}

Envs == UNION {[S -> EnvValues] : S \in SUBSET EnvNames}
Others(names) == UNION {[S -> OtherValues] : S \in SUBSET names}

\* The lookup lists a field may declare: no name twice, at most MaxLookups names.
LookupLists ==
    {s \in UNION {[1..n -> LookupNames] : n \in 0..MaxLookups} :
        \A i, j \in DOMAIN s : i # j => s[i] # s[j]}

\* A default: none, a literal, or a zero-argument factory and what it makes.
NoDefault == [kind |-> "NOTHING", value |-> NOTHING]
Defaults == {NoDefault,
             [kind |-> "literal", value |-> "d"],
             [kind |-> "factory", value |-> "made"]}

\* The field descriptors a schema may hold for the field called `name`.
\* meta = "undeclared": the field's metadata has no env lookups key.
\* meta = "declared": it has one; an empty list stands for None too.
FieldsNamed(name) ==
    {[name |-> name, meta |-> m, lookups |-> l, default |-> d, type |-> "str",
      log |-> NOTHING, converter |-> None, init |-> TRUE] :
        m \in {"declared"}, l \in LookupLists, d \in Defaults}
    \cup
    {[name |-> name, meta |-> "undeclared", lookups |-> <<>>, default |-> d,
      type |-> "str", log |-> NOTHING, converter |-> None, init |-> TRUE] : d \in Defaults}

Schemas == {s \in [DOMAIN FieldNames -> UNION {FieldsNamed(FieldNames[i]) : i \in DOMAIN FieldNames}] :
               \A i \in DOMAIN s : s[i].name = FieldNames[i]}

RangeOf(s) == {s[i] : i \in DOMAIN s}
NamesOf(s) == {s[i].name : i \in DOMAIN s}

(***************************************************************************)
(* String helpers.                                                         *)
(***************************************************************************)
\* str.upper on the schema's field names.
Upper(name) == CASE name = "ab" -> "AB"
                 [] name = "b" -> "B"
                 [] OTHER -> name

\* tuple(s): the characters of a string, one per element.
TupleOfChars(s) == CASE s = "AB" -> <<"A", "B">>
                     [] s = "B" -> <<"B">>
                     [] s = "A" -> <<"A">>
                     [] OTHER -> <<s>>

\* A field name seen as the sequence of its characters.
Spelling(name) ==
    CASE name = "ab" -> <<"a", "b">>
      [] name = "b" -> <<"b">>
      [] name = "_b" -> <<"_", "b">>
      [] name = "_key" -> <<"_", "k", "e", "y">>
      [] name = "api_token" -> <<"a", "p", "i", "_", "t", "o", "k", "e", "n">>
      [] name = "PassWord" -> <<"P", "a", "s", "s", "W", "o", "r", "d">>

UpperLetters == <<"A", "B", "C", "D", "E", "F", "G", "H", "I", "J", "K", "L", "M",
                  "N", "O", "P", "Q", "R", "S", "T", "U", "V", "W", "X", "Y", "Z">>
LowerLetters == <<"a", "b", "c", "d", "e", "f", "g", "h", "i", "j", "k", "l", "m",
                  "n", "o", "p", "q", "r", "s", "t", "u", "v", "w", "x", "y", "z">>

\* str.lower(), character by character.
LowerChar(c) ==
    IF \E i \in DOMAIN UpperLetters : UpperLetters[i] = c
        THEN LowerLetters[CHOOSE i \in DOMAIN UpperLetters : UpperLetters[i] = c]
        ELSE c
lower(s) == [i \in DOMAIN s |-> LowerChar(s[i])]

\* `word in s` for two texts.
Contains(word, s) ==
    \E i \in DOMAIN s :
        /\ i + Len(word) <= Len(s) + 1
        /\ SubSeq(s, i, i + Len(word) - 1) = word

\* A raw text of the environment seen as the sequence of its characters.
Chars(text) ==
    CASE text = "" -> <<>>
      [] text = "v" -> <<"v">>
      [] text = "5" -> <<"5">>
      [] text = "1" -> <<"1">>
      [] text = "0" -> <<"0">>
      [] text = "y" -> <<"y">>
      [] text = "n" -> <<"n">>
      [] text = "t" -> <<"t">>
      [] text = "f" -> <<"f">>
      [] text = "on" -> <<"o", "n">>
      [] text = "On" -> <<"O", "n">>
      [] text = "off" -> <<"o", "f", "f">>
      [] text = "no" -> <<"n", "o">>
      [] text = "NO" -> <<"N", "O">>
      [] text = "yes" -> <<"y", "e", "s">>
      [] text = "Yes" -> <<"Y", "e", "s">>
      [] text = "true" -> <<"t", "r", "u", "e">>
      [] text = "TRUE" -> <<"T", "R", "U", "E">>
      [] text = "tru" -> <<"t", "r", "u">>
      [] text = "false" -> <<"f", "a", "l", "s", "e">>
      [] text = "False" -> <<"F", "a", "l", "s", "e">>
      [] text = "a, b" -> <<"a", ",", " ", "b">>
      [] text = "o" -> <<"o">>
      [] text = "d" -> <<"d">>
      [] text = "default" -> <<"d", "e", "f", "a", "u", "l", "t">>

\* str.strip(): the text without its leading and trailing whitespace.
RECURSIVE strip(_)
strip(s) ==
    IF s = <<>> THEN s
    ELSE IF Head(s) = " " THEN strip(Tail(s))
    ELSE IF s[Len(s)] = " " THEN strip(SubSeq(s, 1, Len(s) - 1))
    ELSE s

\* str.split(sep): the pieces between the separators; one piece, the text
\* itself, when it holds no separator (the empty text included).
RECURSIVE split(_, _)
split(s, sep) ==
    IF \A i \in DOMAIN s : s[i] # sep THEN <<s>>
    ELSE LET i == CHOOSE k \in DOMAIN s :
                     s[k] = sep /\ \A j \in 1..(k - 1) : s[j] # sep
         IN  <<SubSeq(s, 1, i - 1)>> \o split(SubSeq(s, i + 1, Len(s)), sep)

\* collection(iterator) for list, tuple and set.
CallCollection(collection, parts) ==
    IF collection = "set"
        THEN [kind |-> "set", items |-> {parts[i] : i \in DOMAIN parts}]
        ELSE [kind |-> collection, items |-> parts]

\* sep.join(parts)
RECURSIVE Join(_, _)
Join(parts, sep) ==
    IF parts = <<>> THEN ""
    ELSE IF Len(parts) = 1 THEN parts[1]
    ELSE parts[1] \o sep \o Join(Tail(parts), sep)

\* d[k] = v on a dict: a new key goes last, an old key keeps its place.
SetItem(d, k, v) == [n \in DOMAIN d \cup {k} |-> IF n = k THEN v ELSE d[n]]

(***************************************************************************)
(* Default factories.  A factory (list, for one) makes a new, empty,       *)
(* mutable object each time it is called; the heap keeps every object      *)
(* made, with the field and the load it was made for.                      *)
(***************************************************************************)
\* No NothingDict is under test.
DictIdle == data = <<>>

\* No listing is being paginated.
NoResponse == [url |-> 0, fault |-> "none", next |-> 0, last |-> 0]
PagesIdle ==
    /\ session = <<>>
    /\ start_url = 0
    /\ url = 0
    /\ last_url = 0
    /\ response = NoResponse
    /\ requested = <<>>
    /\ yielded = <<>>
    /\ gen = "none"
    /\ escaped = [type |-> "none", response |-> NoResponse]

HeapIdle ==
    /\ heap = <<>>
    /\ objects = EmptyMap
    /\ first_objects = EmptyMap
    /\ load_no = 1

\* A variant that hands out the object made before for the same field, if
\* there is one: FactoryFreshPerResolution rejects it.
CallFactory_cached(h, name, n) ==
    IF \E k \in DOMAIN h : h[k].for = name
        THEN [heap |-> h, ref |-> CHOOSE k \in DOMAIN h : h[k].for = name]
        ELSE [heap |-> Append(h, [for |-> name, load |-> n, items |-> <<>>]),
              ref |-> Len(h) + 1]

\* default.factory(): the heap with the new object in it, and where it is.
CallFactory(h, name, n) ==
    [heap |-> Append(h, [for |-> name, load |-> n, items |-> <<>>]),
     ref |-> Len(h) + 1]

\* The factories of the fields `names` called one after the other.
RECURSIVE CallFactories(_, _, _, _)
CallFactories(h, objs, names, n) ==
    IF names = <<>> THEN [heap |-> h, objects |-> objs]
    ELSE LET made == CallFactory(h, Head(names), n)
         IN  CallFactories(made.heap, SetItem(objs, Head(names), made.ref),
                           Tail(names), n)

\* What a step that calls the factories of `names` does to the heap.
FactoriesCalled(names) ==
    /\ heap' = CallFactories(heap, objects, names, load_no).heap
    /\ objects' = CallFactories(heap, objects, names, load_no).objects
    /\ UNCHANGED <<first_objects, load_no>>

(***************************************************************************)
(* Errors (config/loading/errors.py).  One record shape for every kind.    *)
(***************************************************************************)
NoError == [kind |-> "none", name |-> "", env_lookups |-> <<>>,
            var_containing_default |-> ""]
MissingVariable(name, env_lookups) ==
    [kind |-> "MissingVariable", name |-> name, env_lookups |-> env_lookups,
     var_containing_default |-> ""]
MissingDefault(name, var_containing_default) ==
    [kind |-> "MissingDefault", name |-> name, env_lookups |-> <<>>,
     var_containing_default |-> var_containing_default]
MissingOther(name) ==
    [kind |-> "MissingOther", name |-> name, env_lookups |-> <<>>,
     var_containing_default |-> ""]

\* A variant that renders every error as a MissingVariable, whatever its
\* kind: AggregateListsFailuresByKind rejects it.
ErrorStr_kind_blind(e) ==
    e.name \o " was not found in " \o
    (IF Len(e.env_lookups) = 1
        THEN "env var " \o e.env_lookups[1]
        ELSE "any of " \o Join(e.env_lookups, ","))

\* MissingVariable.__str__, MissingDefault.__str__, MissingOther.__str__
\* (the backquotes around load and other in MissingOther's text are left out).
ErrorStr(e) ==
    CASE e.kind = "MissingVariable" ->
            e.name \o " was not found in " \o
            (IF Len(e.env_lookups) = 1
                THEN "env var " \o e.env_lookups[1]
                ELSE "any of " \o Join(e.env_lookups, ","))
      [] e.kind = "MissingDefault" ->
            e.name \o " was set to " \o _DEFAULT_KEYWORD \o " in env var " \o
            e.var_containing_default \o " but there was no default set"
      [] e.kind = "MissingOther" ->
            e.name \o " had environment lookups disabled, but was not passed in to load's other dict."
      [] OTHER -> ""

\* [str(x) for x in missing]
RECURSIVE ErrorStrs(_)
ErrorStrs(errs) ==
    IF errs = <<>> THEN <<>> ELSE <<ErrorStr(Head(errs))>> \o ErrorStrs(Tail(errs))

\* A variant that keeps only the first failure, as a loader that stops at the
\* first failed field would report: AggregateNotShortCircuit rejects it.
MissingConfigDataError_first_only(config_class, errs) ==
    LET first == IF errs = <<>> THEN <<>> ELSE <<Head(errs)>>
    IN  [type |-> "MissingConfigDataError", missing |-> first,
         message |-> "Config for " \o config_class \o " is missing data: " \o
                     Join(ErrorStrs(first), "\n")]

\* MissingConfigDataError(config_class, missing) and its __str__
MissingConfigDataError(config_class, errs) ==
    [type |-> "MissingConfigDataError", missing |-> errs,
     message |-> "Config for " \o config_class \o " is missing data: " \o
                 Join(ErrorStrs(errs), "\n")]
NoException == [type |-> "none", missing |-> <<>>, message |-> ""]
Exception(type) == [type |-> type, missing |-> <<>>, message |-> ""]

(***************************************************************************)
(* NothingDict (config/common.py): a dict whose NOTHING values are hidden. *)
(* The dict `data` is a function from its keys to their values.            *)
(***************************************************************************)
NothingDict_contains(d, key) ==
    (IF key \in DOMAIN d THEN d[key] ELSE NOTHING) # NOTHING

\* __getitem__ raises KeyError for a hidden key and has no return statement
\* for a shown one: the caller receives None.
NothingDict_getitem(d, key) ==
    IF (IF key \in DOMAIN d THEN d[key] ELSE NOTHING) = NOTHING
        THEN "<KeyError>"
        ELSE None

NothingDict_keys(d) == {k \in DOMAIN d : d[k] # NOTHING}

\* The same dict with the order of its entries, which popitem and iteration
\* depend on: a sequence of [key, value] entries, oldest first.
DictOf(entries) ==
    [k \in {entries[i].key : i \in DOMAIN entries} |->
        (CHOOSE e \in RangeOf(entries) : e.key = k).value]
IsShown(e) == e.value # NOTHING

\* dict.__setitem__: a new key goes last, a known key keeps its place.
dict_setitem(entries, key, value) ==
    IF \E i \in DOMAIN entries : entries[i].key = key
        THEN [i \in DOMAIN entries |->
                IF entries[i].key = key THEN [key |-> key, value |-> value]
                ELSE entries[i]]
        ELSE Append(entries, [key |-> key, value |-> value])
IsNotKey(e, key) == e.key # key
dict_pop(entries, key) ==
    LET Keep(e) == IsNotKey(e, key) IN SelectSeq(entries, Keep)

\* items(), keys(), values(), __iter__ and __len__
NothingDict_items(entries) ==
    LET shown == SelectSeq(entries, IsShown)
    IN  [i \in DOMAIN shown |-> <<shown[i].key, shown[i].value>>]
NothingDict_keys_in_order(entries) ==
    [i \in DOMAIN NothingDict_items(entries) |-> NothingDict_items(entries)[i][1]]
NothingDict_values(entries) ==
    [i \in DOMAIN NothingDict_items(entries) |-> NothingDict_items(entries)[i][2]]
NothingDict_iter(entries) == NothingDict_keys_in_order(entries)
NothingDict_len(entries) == Len(NothingDict_iter(entries))

\* pop(key, default): what is returned or raised, and the entries left.
NothingDict_pop(entries, key, default) ==
    LET value == IF key \in DOMAIN DictOf(entries) THEN DictOf(entries)[key]
                 ELSE NOTHING
    IN  [data |-> dict_pop(entries, key),
         ret |-> IF value # NOTHING THEN [kind |-> "value", items |-> <<value>>]
                 ELSE IF default # NOTHING
                     THEN [kind |-> "value", items |-> <<default>>]
                 ELSE [kind |-> "KeyError", items |-> <<>>]]

\* popitem(): entries are taken off the end until one is shown, and only
\* its value is returned; dict.popitem raises KeyError on an empty dict.
RECURSIVE NothingDict_popitem(_)
NothingDict_popitem(entries) ==
    IF entries = <<>>
        THEN [data |-> <<>>, ret |-> [kind |-> "KeyError", items |-> <<>>]]
    ELSE LET last == entries[Len(entries)]
             rest == SubSeq(entries, 1, Len(entries) - 1)
         IN  IF last.value # NOTHING
                THEN [data |-> rest,
                      ret |-> [kind |-> "value", items |-> <<last.value>>]]
                ELSE NothingDict_popitem(rest)

(***************************************************************************)
(* config/converters.py, and the converters attrs applies in the           *)
(* constructor it generates.                                               *)
(***************************************************************************)
\* A Python value with the kind of its type; an exception is one whose kind
\* is the exception's class.
PyValue(kind, items) == [kind |-> kind, items |-> items]
PyRaise(kind) == [kind |-> kind, items |-> <<>>]
IsException(r) == r.kind \in {"ValueError", "TypeError"}
Str(chars) == [kind |-> "str", items |-> chars]

\* converters.py _comma_separated_collection(collection, val)
_comma_separated_collection(collection, val) ==
    IF val.kind = "str"
        THEN LET pieces == split(val.items, ",")
             IN  CallCollection(collection,
                                [i \in DOMAIN pieces |-> strip(pieces[i])])
        ELSE val

\* _converter_for(type_): the converter registered for the type, if any.
_converter_for(type_) ==
    CASE type_ = "int" -> "int"
      [] type_ = "list[str]" -> "comma_separated(list)"
      [] type_ = "set[str]" -> "comma_separated(set)"
      [] type_ = "tuple[str]" -> "comma_separated(tuple)"
      [] OTHER -> None

\* int(x) of a text of decimal digits (the texts of the model have no sign,
\* blank or underscore) and of None.
Digits == <<"0", "1", "2", "3", "4", "5", "6", "7", "8", "9">>
IsDigit(c) == \E i \in DOMAIN Digits : Digits[i] = c
DigitValue(c) == (CHOOSE i \in DOMAIN Digits : Digits[i] = c) - 1
RECURSIVE IntOfChars(_)
IntOfChars(chars) ==
    IF chars = <<>> THEN 0
    ELSE 10 * IntOfChars(SubSeq(chars, 1, Len(chars) - 1))
         + DigitValue(chars[Len(chars)])
int(x) ==
    IF x = None THEN PyRaise("TypeError")
    ELSE IF Chars(x) # <<>> /\ \A i \in DOMAIN Chars(x) : IsDigit(Chars(x)[i])
        THEN PyValue("int", IntOfChars(Chars(x)))
    ELSE PyRaise("ValueError")

\* converter(value), as the generated __init__ calls a field's converter;
\* a field without one keeps the value.
ApplyConverter(converter, value) ==
    CASE converter = None -> PyValue("object", value)
      [] converter = "int" -> int(value)
      [] converter = "comma_separated(list)" ->
            _comma_separated_collection("list",
                IF value = None THEN PyValue("NoneType", None) ELSE Str(Chars(value)))
      [] converter = "comma_separated(set)" ->
            _comma_separated_collection("set",
                IF value = None THEN PyValue("NoneType", None) ELSE Str(Chars(value)))
      [] converter = "comma_separated(tuple)" ->
            _comma_separated_collection("tuple",
                IF value = None THEN PyValue("NoneType", None) ELSE Str(Chars(value)))

(***************************************************************************)
(* The schema constructor, called with keyword arguments, for an attrs     *)
(* class or a dataclass.                                                   *)
(* `passed` is the keyword arguments as the constructor receives them.     *)
(***************************************************************************)
\* The default of a field as the class definition applies it.
ClassDefault(field) == field.default.value

\* The constructor's parameters are the fields with init=True: every
\* argument is one of them, and every one without a default is among the
\* arguments (else TypeError).
CanInit(sch, passed) ==
    /\ DOMAIN passed \subseteq {sch[i].name : i \in {j \in DOMAIN sch : sch[j].init}}
    /\ \A i \in DOMAIN sch :
          (sch[i].init /\ sch[i].default.kind = "NOTHING") =>
              sch[i].name \in DOMAIN passed

InitInstance(sch, passed) ==
    [n \in NamesOf(sch) |->
        IF n \in DOMAIN passed THEN passed[n]
        ELSE LET i == CHOOSE j \in DOMAIN sch : sch[j].name = n
             IN  ClassDefault(sch[i])]

\* The attrs constructor: every value, passed or default, goes through its
\* field's converter, in declaration order; the first exception ends it.
Converted(sch, passed) ==
    [i \in DOMAIN sch |->
        ApplyConverter(sch[i].converter, InitInstance(sch, passed)[sch[i].name])]
ConversionError(sch, passed) ==
    IF \E i \in DOMAIN sch : IsException(Converted(sch, passed)[i])
        THEN Converted(sch, passed)[CHOOSE i \in DOMAIN sch :
                 /\ IsException(Converted(sch, passed)[i])
                 /\ \A j \in 1..(i - 1) : ~IsException(Converted(sch, passed)[j])].kind
        ELSE "none"
InitAttrsInstance(sch, passed) ==
    [n \in NamesOf(sch) |->
        Converted(sch, passed)[CHOOSE i \in DOMAIN sch : sch[i].name = n].items]

(***************************************************************************)
(* config/loading/env.py: EnvironmentConfigLoader                          *)
(***************************************************************************)
\* field_env_lookups(field)
field_env_lookups(field) ==
    IF field.meta = "undeclared" THEN <<Upper(field.name)>> ELSE field.lookups

\* _set_up_converter(field) raises TypeError: no converter was given, the
\* type is not str or Optional[str], none is registered for it, and the
\* field has env lookups.
_set_up_converter_raises(field) ==
    /\ field.converter = None
    /\ field.type \notin {"str", "Optional[str]"}
    /\ _converter_for(field.type) = None
    /\ field_env_lookups(field) # <<>>

\* _set_up_converter(field), when it returns: the field, with the converter
\* registered for its type unless it has one or is a str.
_set_up_converter(field) ==
    IF field.converter # None THEN field
    ELSE IF field.type \in {"str", "Optional[str]"} THEN field
    ELSE [field EXCEPT !.converter = _converter_for(field.type)]

\* The class decorator `config` (attrs.define with _hook as its field
\* transformer) on a class whose fields are `schema`: the first field that
\* _set_up_converter refuses ends the declaration in TypeError.
DeclareConfig ==
    /\ impl = "construct"
    /\ status = "declaring"
    /\ IF \E i \in DOMAIN schema : _set_up_converter_raises(schema[i])
          THEN /\ status' = "rejected"
               /\ raised' = Exception("TypeError")
               /\ UNCHANGED schema
          ELSE /\ status' = "loading"
               /\ schema' = [i \in DOMAIN schema |-> _set_up_converter(schema[i])]
               /\ UNCHANGED raised
    /\ UNCHANGED callVars
    /\ UNCHANGED dictVars
    /\ UNCHANGED pageVars
    /\ UNCHANGED heapVars
    /\ UNCHANGED <<impl, env, osenv, other, default_keyword, pc, kwargs,
                   value_sources, missing, results, any_errors, printed, instance,
                   instance_sources, reads>>

\* A variant that yields the matches last name first, so that the last
\* present name wins: FirstMatchWins rejects it.
RECURSIVE _all_matches_last_first(_, _)
_all_matches_last_first(lookups, e) ==
    IF lookups = <<>> THEN <<>>
    ELSE IF Head(lookups) \in DOMAIN e
        THEN _all_matches_last_first(Tail(lookups), e)
             \o <<<<Head(lookups), e[Head(lookups)]>>>>
        ELSE _all_matches_last_first(Tail(lookups), e)

\* _all_matches(lookups): the (name, value) pairs present in the mapping, in order.
RECURSIVE _all_matches(_, _)
_all_matches(lookups, e) ==
    IF lookups = <<>> THEN <<>>
    ELSE IF Head(lookups) \in DOMAIN e
        THEN <<<<Head(lookups), e[Head(lookups)]>>>> \o _all_matches(Tail(lookups), e)
        ELSE _all_matches(Tail(lookups), e)

\* The names a loop that stops at the first present name has looked up.
RECURSIVE Probed(_, _)
Probed(lookups, e) ==
    IF lookups = <<>> THEN <<>>
    ELSE IF Head(lookups) \in DOMAIN e THEN <<Head(lookups)>>
    ELSE <<Head(lookups)>> \o Probed(Tail(lookups), e)

\* The lookups of `names` in `mapping` made for the field `for`, in order.
RECURSIVE ReadsOf(_, _, _)
ReadsOf(mapping, names, for) ==
    IF names = <<>> THEN <<>>
    ELSE <<<<mapping, Head(names), for>>>> \o ReadsOf(mapping, Tail(names), for)

Return(value, source) ==
    [raised |-> FALSE, value |-> value, source |-> source, err |-> NoError]
Raise(err) ==
    [raised |-> TRUE, value |-> NOTHING, source |-> NOTHING, err |-> err]
\* An exception that is no MissingDataError leaves the loop it is raised in.
Uncaught(kind) ==
    [kind |-> kind, name |-> "", env_lookups |-> <<>>, var_containing_default |-> ""]
Propagate(kind) == Raise(Uncaught(kind))
IsUncaught(r) == r.raised /\ r.err.kind \in {"ValueError", "TypeError"}

\* The source text of a default taken because nothing was set.
DefaultUnsetSource(env_lookups) ==
    IF Len(env_lookups) = 1
        THEN "default value; " \o env_lookups[1] \o " was not set"
        ELSE "default value; none of " \o Join(env_lookups, ", ") \o " were set"

\* A variant that never reads `other`: OverrideBypass rejects it.
_load_field_from_other_ignored(name, oth) ==
    Raise(MissingOther(name))

\* _load_field, when the field has no env lookups: the value given through
\* `other`, as it is and with no source, or MissingOther.
_load_field_from_other(name, oth) ==
    IF name \in DOMAIN oth
        THEN Return(oth[name], NOTHING)
        ELSE Raise(MissingOther(name))

\* _load_field(field): the value and its source, or the error raised.
_load_field(field, oth, e) ==
    LET name == field.name
        env_lookups == field_env_lookups(field)
        matches == _all_matches(env_lookups, e)
    IN  IF env_lookups = <<>>
            THEN _load_field_from_other(name, oth)
        ELSE IF matches # <<>>
            THEN LET env_name == matches[1][1]
                     env_value == matches[1][2]
                 IN  IF env_value = _DEFAULT_KEYWORD
                        THEN IF field.default.kind = "NOTHING"
                                THEN Raise(MissingDefault(name, env_name))
                                ELSE Return(NOTHING,
                                       "default value (" \o env_name \o " set to "
                                       \o env_value \o ")")
                        ELSE Return(env_value, "from env var " \o env_name)
        ELSE IF field.default.kind = "NOTHING"
            THEN Raise(MissingVariable(name, env_lookups))
            ELSE Return(NOTHING, DefaultUnsetSource(env_lookups))

\* The lookups _load_field makes in the mappings it is given.
_load_field_reads(field, oth, e) ==
    IF field_env_lookups(field) = <<>>
        THEN <<<<"other", field.name, field.name>>>>
        ELSE ReadsOf("env", Probed(field_env_lookups(field), e), field.name)

\* One iteration of construct's loop over fields(cls).
ConstructField ==
    /\ impl = "construct"
    /\ status = "loading"
    /\ pc \in DOMAIN schema
    /\ LET field == schema[pc]
           r == _load_field(field, other, env)
       IN  /\ IF r.raised
                 THEN /\ missing' = Append(missing, r.err)
                      /\ UNCHANGED <<kwargs, value_sources>>
                 ELSE /\ kwargs' = SetItem(kwargs, field.name, r.value)
                      /\ value_sources' = SetItem(value_sources, field.name, r.source)
                      /\ UNCHANGED missing
           /\ reads' = reads \o _load_field_reads(field, other, env)
    /\ pc' = pc + 1
    /\ UNCHANGED callVars
    /\ UNCHANGED dictVars
    /\ UNCHANGED pageVars
    /\ UNCHANGED heapVars
    /\ UNCHANGED <<impl, schema, env, osenv, other, default_keyword, status,
                   results, any_errors, printed, instance, instance_sources, raised>>

\* The keyword arguments the constructor receives when the NothingDict
\* self.kwargs is unpacked into the call: keys(), then __getitem__ per key.
ConstructKwargs(d) ==
    [k \in NothingDict_keys(d) |-> NothingDict_getitem(d, k)]

\* The factories the generated __init__ calls, in order: that of every
\* field that was not passed and has a factory default, up to the first
\* field whose converter raises.
RECURSIVE InitFactoryCallsFrom(_, _, _)
InitFactoryCallsFrom(i, sch, passed) ==
    IF i > Len(sch) THEN <<>>
    ELSE (IF sch[i].name \notin DOMAIN passed /\ sch[i].default.kind = "factory"
             THEN <<sch[i].name>> ELSE <<>>)
         \o (IF IsException(Converted(sch, passed)[i]) THEN <<>>
             ELSE InitFactoryCallsFrom(i + 1, sch, passed))
InitFactoryCalls(sch, passed) == InitFactoryCallsFrom(1, sch, passed)

\* construct, after the loop: raise the aggregate error or build the instance.
ConstructFinish ==
    /\ impl = "construct"
    /\ status = "loading"
    /\ pc = Len(schema) + 1
    /\ IF missing # <<>>
          THEN /\ status' = "raised"
               /\ raised' = MissingConfigDataError(ClassName, missing)
               /\ UNCHANGED <<instance, instance_sources>>
          ELSE IF ~CanInit(schema, ConstructKwargs(kwargs))
          THEN /\ status' = "raised"
               /\ raised' = Exception("TypeError")
               /\ UNCHANGED <<instance, instance_sources>>
          ELSE IF ConversionError(schema, ConstructKwargs(kwargs)) = "none"
          THEN /\ status' = "constructed"
               /\ instance' = InitAttrsInstance(schema, ConstructKwargs(kwargs))
               /\ instance_sources' = value_sources
               /\ UNCHANGED raised
          ELSE /\ status' = "raised"
               /\ raised' = Exception(ConversionError(schema, ConstructKwargs(kwargs)))
               /\ UNCHANGED <<instance, instance_sources>>
    /\ UNCHANGED callVars
    /\ UNCHANGED dictVars
    /\ UNCHANGED pageVars
    /\ FactoriesCalled(IF missing = <<>> /\ CanInit(schema, ConstructKwargs(kwargs))
                          THEN InitFactoryCalls(schema, ConstructKwargs(kwargs))
                          ELSE <<>>)
    /\ UNCHANGED <<impl, schema, env, osenv, other, default_keyword, pc, kwargs,
                   value_sources, missing, results, any_errors, printed, reads>>

(***************************************************************************)
(* config/next.py: EnvFinder and load_and_log                              *)
(***************************************************************************)
\* The entries of load_and_log's `results`: a FoundEnvVar, an UnsetEnvVar, a
\* DefaultSetEnvVar, a MissingDataError ("error"), or a value taken from
\* `other` as it is ("raw").  One record shape for all.
FoundEnvVar(env_name, value) ==
    [tag |-> "FoundEnvVar", env_name |-> env_name, value |-> value,
     env_lookups |-> <<>>, default_keyword |-> "", log |-> "REDACT", err |-> NoError]
UnsetEnvVar(value, env_lookups) ==
    [tag |-> "UnsetEnvVar", env_name |-> "", value |-> value,
     env_lookups |-> env_lookups, default_keyword |-> "", log |-> "REDACT",
     err |-> NoError]
DefaultSetEnvVar(env_name, value, keyword) ==
    [tag |-> "DefaultSetEnvVar", env_name |-> env_name, value |-> value,
     env_lookups |-> <<>>, default_keyword |-> keyword, log |-> "REDACT",
     err |-> NoError]
ErrorEntry(err) ==
    [tag |-> "error", env_name |-> "", value |-> NOTHING, env_lookups |-> <<>>,
     default_keyword |-> "", log |-> NOTHING, err |-> err]
RawEntry(value) ==
    [tag |-> "raw", env_name |-> "", value |-> value, env_lookups |-> <<>>,
     default_keyword |-> "", log |-> NOTHING, err |-> NoError]
NothingEntry == RawEntry(NOTHING)

IsEnvVarWithSource(entry) ==
    entry.tag \in {"FoundEnvVar", "UnsetEnvVar", "DefaultSetEnvVar"}

\* FoundEnvVar.source, UnsetEnvVar.source, DefaultSetEnvVar.source
SourceOf(entry) ==
    CASE entry.tag = "FoundEnvVar" -> "from env var " \o entry.env_name
      [] entry.tag = "UnsetEnvVar" -> DefaultUnsetSource(entry.env_lookups)
      [] entry.tag = "DefaultSetEnvVar" ->
            "default value (" \o entry.env_name \o " set to "
            \o entry.default_keyword \o ")"
      [] OTHER -> ""

REDACT_WORDS ==
    {<<"p", "a", "s", "s">>, <<"t", "o", "k", "e", "n">>, <<"k", "e", "y">>,
     <<"c", "r", "e", "d">>, <<"s", "e", "c", "r", "e", "t">>}

\* name.startswith("_") and any(word in name.lower() for word in REDACT_WORDS)
StartsWithUnderscore(name) ==
    Spelling(name) # <<>> /\ Head(Spelling(name)) = "_"
ContainsRedactWord(name) ==
    \E word \in REDACT_WORDS : Contains(word, lower(Spelling(name)))

\* _should_log(field): metadata.get(_SHOULD_LOG, None) is None when the field
\* declares no policy.
_should_log(field) ==
    IF field.log = NOTHING \/ field.log = None
        THEN IF StartsWithUnderscore(field.name) THEN "SKIP"
             ELSE IF ContainsRedactWord(field.name) THEN "REDACT"
             ELSE "LOG"
        ELSE field.log

\* EnvFinder._first_env_match: the name of the first lookup present, or None.
RECURSIVE _first_env_match(_, _)
_first_env_match(env_lookups, e) ==
    IF env_lookups = <<>> THEN None
    ELSE IF Head(env_lookups) \in DOMAIN e THEN Head(env_lookups)
    ELSE _first_env_match(Tail(env_lookups), e)

\* A variant that does not call a default factory:
\* EnvMissDefaultOrMissingVariable rejects it.
_get_default_literal_only(field) ==
    IF field.default.kind = "literal" THEN field.default.value
    ELSE NOTHING

\* EnvFinder._get_default: the factory's product, the literal, or NOTHING.
_get_default(field) ==
    IF field.default.kind = "factory" THEN field.default.value
    ELSE IF field.default.kind = "literal" THEN field.default.value
    ELSE NOTHING

\* EnvFinder._value_or_default
_value_or_default(field, e, env_lookups, keyword) ==
    LET env_name == _first_env_match(env_lookups, e)
    IN  IF env_name = None
            THEN IF _get_default(field) = NOTHING
                    THEN ErrorEntry(MissingVariable(field.name, env_lookups))
                    ELSE UnsetEnvVar(_get_default(field), env_lookups)
        ELSE IF e[env_name] = keyword
            THEN IF _get_default(field) = NOTHING
                    THEN ErrorEntry(MissingDefault(field.name, env_name))
                    ELSE DefaultSetEnvVar(env_name, _get_default(field), keyword)
        ELSE FoundEnvVar(env_name, e[env_name])

\* The lookup list EnvFinder.get_value settles on.
get_value_lookups(field) ==
    IF field.meta = "declared" THEN field.lookups
    ELSE TupleOfChars(Upper(field.name))

\* The factory EnvFinder.get_value calls for a field: _get_default is called
\* when no name is set and when the first one set holds the keyword, and it
\* calls the default if the default is a Factory.
get_value_factory_calls(field, e, keyword) ==
    LET env_lookups == get_value_lookups(field)
        env_name == _first_env_match(env_lookups, e)
    IN  IF env_lookups = <<>> THEN <<>>
        ELSE IF (env_name = None \/ e[env_name] = keyword)
                /\ field.default.kind = "factory"
            THEN <<field.name>>
        ELSE <<>>

\* EnvFinder.get_value
get_value(field, e, keyword) ==
    IF get_value_lookups(field) = <<>>
        THEN NothingEntry
        ELSE _value_or_default(field, e, get_value_lookups(field), keyword)

\* One iteration of load_and_log's loop over attrs.fields(cls).
LoadAndLogField ==
    /\ impl = "load_and_log"
    /\ status = "loading"
    /\ pc \in DOMAIN schema
    /\ LET field == schema[pc]
           name == field.name
           value == get_value(field, env, default_keyword)
       IN  IF name \in DOMAIN other
              THEN /\ results' = SetItem(results, name, RawEntry(other[name]))
                   /\ reads' = Append(reads, <<"other", name, name>>)
                   /\ UNCHANGED any_errors
              ELSE /\ reads' = reads \o <<<<"other", name, name>>>>
                                \o ReadsOf("env", Probed(get_value_lookups(field), env),
                                           name)
                   /\ IF value = NothingEntry
                         THEN /\ results' = SetItem(results, name,
                                               ErrorEntry(MissingOther(name)))
                              /\ UNCHANGED any_errors
                      ELSE IF value.tag = "error"
                         THEN /\ results' = SetItem(results, name, value)
                              /\ any_errors' = TRUE
                      ELSE /\ results' = SetItem(results, name,
                                   [value EXCEPT !.log = _should_log(field)])
                           /\ UNCHANGED any_errors
    /\ pc' = pc + 1
    /\ UNCHANGED callVars
    /\ UNCHANGED dictVars
    /\ UNCHANGED pageVars
    /\ FactoriesCalled(IF schema[pc].name \in DOMAIN other THEN <<>>
                       ELSE get_value_factory_calls(schema[pc], env, default_keyword))
    /\ UNCHANGED <<impl, schema, env, osenv, other, default_keyword, status,
                   kwargs, value_sources, missing, printed, instance,
                   instance_sources, raised>>

\* The line load_and_log prints for one entry of results, <<>> when it prints none.
PrintedFor(name, entry) ==
    IF IsEnvVarWithSource(entry)
        THEN IF entry.log = "SKIP" THEN <<>>
             ELSE IF entry.log = "REDACT"
                THEN <<name \o "=" \o "REDACTED" \o ", " \o SourceOf(entry)>>
             ELSE <<name \o "=" \o entry.value \o ", " \o SourceOf(entry)>>
    ELSE IF entry.tag = "error"
        THEN <<name \o "=ERROR:" \o " " \o ErrorStr(entry.err)>>
    ELSE <<>>

\* The lines printed for results, in the order of the dict (the schema's order).
RECURSIVE PrintedLines(_, _)
PrintedLines(sch, res) ==
    IF sch = <<>> THEN <<>>
    ELSE PrintedFor(Head(sch).name, res[Head(sch).name]) \o PrintedLines(Tail(sch), res)

\* load_and_log, after the loop: print, then return None or build the instance.
\* v.value is read of every entry: an entry that is no EnvVarWithSource has none.
LoadAndLogFinish ==
    /\ impl = "load_and_log"
    /\ status = "loading"
    /\ pc = Len(schema) + 1
    /\ printed' = printed
          \o <<IF any_errors
                  THEN "While loading config " \o ClassName
                       \o ", errors were encountered. All values:"
                  ELSE "Loading " \o ClassName \o ", inputs below:">>
          \o PrintedLines(schema, results)
    /\ IF any_errors
          THEN /\ status' = "returned_none"
               /\ UNCHANGED <<kwargs, instance, raised>>
          ELSE IF \E n \in DOMAIN results : ~IsEnvVarWithSource(results[n])
          THEN /\ status' = "raised"
               /\ raised' = Exception("AttributeError")
               /\ UNCHANGED <<kwargs, instance>>
          ELSE /\ kwargs' = [n \in DOMAIN results |-> results[n].value]
               /\ IF CanInit(schema, kwargs')
                     THEN /\ status' = "constructed"
                          /\ instance' = InitInstance(schema, kwargs')
                          /\ UNCHANGED raised
                     ELSE /\ status' = "raised"
                          /\ raised' = Exception("TypeError")
                          /\ UNCHANGED instance
    /\ UNCHANGED callVars
    /\ UNCHANGED dictVars
    /\ UNCHANGED pageVars
    /\ UNCHANGED heapVars
    /\ UNCHANGED <<impl, schema, env, osenv, other, default_keyword, pc,
                   value_sources, missing, results, any_errors, instance_sources,
                   reads>>

(***************************************************************************)
(* config/loading.py: load                                                 *)
(***************************************************************************)
\* The class that load is given is a dataclass: its declaration looks at no
\* field's type, and load asks only whether it is one.
DeclareDataclass ==
    /\ impl = "load"
    /\ status = "declaring"
    /\ status' = "loading"
    /\ UNCHANGED callVars
    /\ UNCHANGED dictVars
    /\ UNCHANGED pageVars
    /\ UNCHANGED heapVars
    /\ UNCHANGED <<impl, schema, env, osenv, other, default_keyword, pc, kwargs,
                   value_sources, missing, results, any_errors, printed, instance,
                   instance_sources, raised, reads>>

\* os.getenv(var_name): the process environment's value, or None.
os_getenv(var_name, os) == IF var_name \in DOMAIN os THEN os[var_name] ELSE None

\* _get_env_var(var_name, env=env): reads the process environment, compares
\* with the local `default_keyword = ()`; the `env` it is given is not read.
_get_env_var(var_name, e, os) ==
    LET keyword == EmptyTuple
        env_var == os_getenv(var_name, os)
    IN  IF env_var = keyword THEN DefaultValue ELSE env_var

\* isinstance(value, str) for what _get_env_var returns
IsStr(value) == value \notin {None, DefaultValue}

\* The first (name, value) of the lookups whose value is not None, or <<>>.
RECURSIVE first_match(_, _, _)
first_match(env_lookups, e, os) ==
    IF env_lookups = <<>> THEN <<>>
    ELSE IF _get_env_var(Head(env_lookups), e, os) # None
        THEN <<Head(env_lookups), _get_env_var(Head(env_lookups), e, os)>>
        ELSE first_match(Tail(env_lookups), e, os)

\* A variant that accepts only true, false, 1, 0, yes and no.
strtobool_strict(val) ==
    LET v == lower(Chars(val))
    IN  IF v \in {<<"y", "e", "s">>, <<"t", "r", "u", "e">>, <<"1">>}
            THEN PyValue("int", 1)
        ELSE IF v \in {<<"n", "o">>, <<"f", "a", "l", "s", "e">>, <<"0">>}
            THEN PyValue("int", 0)
        ELSE PyRaise("ValueError")

\* distutils.util.strtobool(val), which loading.py imports: 1 for y, yes, t,
\* true, on and 1, 0 for n, no, f, false, off and 0, whatever the case of
\* the letters; ValueError for every other text.
strtobool(val) ==
    LET v == lower(Chars(val))
    IN  IF v \in {<<"y">>, <<"y", "e", "s">>, <<"t">>, <<"t", "r", "u", "e">>,
                  <<"o", "n">>, <<"1">>}
            THEN PyValue("int", 1)
        ELSE IF v \in {<<"n">>, <<"n", "o">>, <<"f">>, <<"f", "a", "l", "s", "e">>,
                       <<"o", "f", "f">>, <<"0">>}
            THEN PyValue("int", 0)
        ELSE PyRaise("ValueError")

\* typing.get_origin(type_) for the generic types Collection[str] of the
\* model, None for the others.
get_origin(type_) ==
    CASE type_ = "list[str]" -> "list"
      [] type_ = "set[str]" -> "set"
      [] type_ = "tuple[str]" -> "tuple"
      [] OTHER -> None

\* transform_value(value, type_)
transform_value(value, type_) ==
    IF type_ = "str" THEN PyValue("str", value)
    ELSE IF type_ = "bool" THEN strtobool(value)
    ELSE IF type_ = "Optional[str]" THEN PyValue("str", value)
    ELSE IF get_origin(type_) # None
        THEN LET pieces == split(Chars(value), ",")
             IN  CallCollection(get_origin(type_),
                                [i \in DOMAIN pieces |-> strip(pieces[i])])
    ELSE PyRaise("TypeError")

\* The lookup list load settles on for a field.
load_lookups(field) ==
    IF field.meta = "undeclared" THEN <<Upper(field.name)>> ELSE field.lookups

\* What one iteration of load's loop does for a field that is not in
\* field_args: the value to store, or the error to append.
load_field(field, e, os) ==
    LET env_lookups == load_lookups(field)
        match == first_match(env_lookups, e, os)
        env_var_name == IF match = <<>> THEN None ELSE match[1]
        value == IF match = <<>> THEN None ELSE match[2]
    IN  IF env_lookups = <<>>
            THEN Raise(MissingOther(field.name))
        ELSE IF env_var_name \notin {None, ""} /\ IsStr(value)
            THEN LET transformed == transform_value(value, field.type)
                 IN  IF IsException(transformed)
                        THEN Propagate(transformed.kind)
                        ELSE Return(transformed.items, NOTHING)
        ELSE IF field.default.kind = "literal"
            THEN Return(field.default.value, NOTHING)
        ELSE IF field.default.kind = "factory"
            THEN Return(field.default.value, NOTHING)
        ELSE IF env_var_name # None /\ value = DefaultValue
            THEN Raise(MissingDefault(field.name, env_var_name))
        ELSE Raise(MissingVariable(field.name, env_lookups))

\* The factory load calls for a field that is not in field_args:
\* f.default_factory(), when the happy path was not taken and the field has
\* no literal default.
load_field_factory_calls(field, e, os) ==
    LET env_lookups == load_lookups(field)
        match == first_match(env_lookups, e, os)
        env_var_name == IF match = <<>> THEN None ELSE match[1]
        value == IF match = <<>> THEN None ELSE match[2]
    IN  IF env_lookups = <<>> THEN <<>>
        ELSE IF env_var_name \notin {None, ""} /\ IsStr(value) THEN <<>>
        ELSE IF field.default.kind = "literal" THEN <<>>
        ELSE IF field.default.kind = "factory" THEN <<field.name>>
        ELSE <<>>

\* A variant in which field_args is `other` itself: InputsUnchanged
\* rejects it.
other_after_store_aliased(oth, field_args) == field_args

\* field_args = dict(other) is a new dict with the entries of `other`:
\* what `other` holds after a store into field_args.
other_after_store(oth, field_args) == oth

\* One iteration of load's loop over fields(cls).  field_args starts as
\* dict(other): kwargs holds it from the start of the call.
LoadField ==
    /\ impl = "load"
    /\ status = "loading"
    /\ pc \in DOMAIN schema
    /\ LET field == schema[pc]
           r == load_field(field, env, osenv)
       IN  IF field.name \in DOMAIN kwargs
              THEN /\ reads' = Append(reads, <<"other", field.name, field.name>>)
                   /\ pc' = pc + 1
                   /\ UNCHANGED <<kwargs, missing, status, raised>>
              ELSE /\ reads' = reads \o <<<<"other", field.name, field.name>>>>
                                \o ReadsOf("os", Probed(load_lookups(field), osenv),
                                           field.name)
                   /\ IF IsUncaught(r)
                         THEN /\ status' = "raised"
                              /\ raised' = Exception(r.err.kind)
                              /\ UNCHANGED <<kwargs, missing, pc>>
                      ELSE IF r.raised
                         THEN /\ missing' = Append(missing, r.err)
                              /\ pc' = pc + 1
                              /\ UNCHANGED <<kwargs, status, raised>>
                         ELSE /\ kwargs' = SetItem(kwargs, field.name, r.value)
                              /\ pc' = pc + 1
                              /\ UNCHANGED <<missing, status, raised>>
    /\ UNCHANGED callVars
    /\ UNCHANGED dictVars
    /\ UNCHANGED pageVars
    /\ FactoriesCalled(IF schema[pc].name \in DOMAIN kwargs THEN <<>>
                       ELSE load_field_factory_calls(schema[pc], env, osenv))
    /\ other' = other_after_store(other, kwargs')
    /\ UNCHANGED <<impl, schema, env, osenv, default_keyword,
                   value_sources, results, any_errors, printed, instance,
                   instance_sources>>

\* load, after the loop: raise the aggregate error or build the instance.
LoadFinish ==
    /\ impl = "load"
    /\ status = "loading"
    /\ pc = Len(schema) + 1
    /\ IF missing # <<>>
          THEN /\ status' = "raised"
               /\ raised' = MissingConfigDataError(ClassName, missing)
               /\ UNCHANGED instance
          ELSE IF CanInit(schema, kwargs)
          THEN /\ status' = "constructed"
               /\ instance' = InitInstance(schema, kwargs)
               /\ UNCHANGED raised
          ELSE /\ status' = "raised"
               /\ raised' = Exception("TypeError")
               /\ UNCHANGED instance
    /\ UNCHANGED callVars
    /\ UNCHANGED dictVars
    /\ UNCHANGED pageVars
    /\ UNCHANGED heapVars
    /\ UNCHANGED <<impl, schema, env, osenv, other, default_keyword, pc, kwargs,
                   value_sources, missing, results, any_errors, printed,
                   instance_sources, reads>>

(***************************************************************************)
(* config/loading/env.py: EnvVars, the default that loads itself           *)
(***************************************************************************)
\* EnvVars.first_env_match: the first (name, value) present in config_env, or <<>>.
first_env_match(env_vars, e) ==
    IF _all_matches(env_vars, e) = <<>> THEN <<>> ELSE _all_matches(env_vars, e)[1]

\* EnvVars._get_default
EnvVars_get_default(field) ==
    IF field.default.kind = "NOTHING" THEN NOTHING ELSE field.default.value

\* EnvVars._load: the value and the source, or the error raised.  In the
\* keyword branch `value` is rebound to the default before the source is
\* formatted, and the format has no closing parenthesis.
EnvVars_load(field, e, keyword) ==
    LET env_vars == field.lookups
        result == first_env_match(env_vars, e)
    IN  IF result = <<>>
            THEN IF EnvVars_get_default(field) = NOTHING
                    THEN Raise(MissingVariable(field.name, env_vars))
                    ELSE Return(EnvVars_get_default(field),
                                DefaultUnsetSource(env_vars))
        ELSE IF result[2] = keyword
            THEN IF EnvVars_get_default(field) = NOTHING
                    THEN Raise(MissingDefault(field.name, result[1]))
                    ELSE Return(EnvVars_get_default(field),
                                "default value (" \o result[1] \o " set to "
                                \o EnvVars_get_default(field))
        ELSE Return(result[2], "from env var " \o result[1])

\* EnvVars._load for the field at pc; an error leaves the call.
\* The factory EnvVars._load calls through _get_default.
EnvVars_factory_calls(field, e, keyword) ==
    LET result == first_env_match(field.lookups, e)
    IN  IF (result = <<>> \/ result[2] = keyword) /\ field.default.kind = "factory"
            THEN <<field.name>>
            ELSE <<>>

EnvVarsLoad ==
    /\ impl = "EnvVars"
    /\ status = "loading"
    /\ pc \in DOMAIN schema
    /\ LET field == schema[pc]
           r == EnvVars_load(field, env, default_keyword)
       IN  /\ reads' = reads \o ReadsOf("env", Probed(field.lookups, env), field.name)
           /\ IF r.raised
                 THEN /\ status' = "raised"
                      /\ raised' = [type |-> r.err.kind, missing |-> <<r.err>>,
                                    message |-> ErrorStr(r.err)]
                      /\ UNCHANGED <<kwargs, value_sources>>
                 ELSE /\ kwargs' = SetItem(kwargs, field.name, r.value)
                      /\ value_sources' = SetItem(value_sources, field.name, r.source)
                      /\ status' = IF pc = Len(schema) THEN "returned" ELSE "loading"
                      /\ UNCHANGED raised
    /\ pc' = pc + 1
    /\ UNCHANGED callVars
    /\ UNCHANGED dictVars
    /\ UNCHANGED pageVars
    /\ FactoriesCalled(EnvVars_factory_calls(schema[pc], env, default_keyword))
    /\ UNCHANGED <<impl, schema, env, osenv, other, default_keyword, missing,
                   results, any_errors, printed, instance, instance_sources>>

(***************************************************************************)
(* The calls.                                                              *)
(***************************************************************************)
\* The process environments a call of load may run in: the mapping it was
\* given (env = os.environ, the default), an empty one, or one that has
\* every name set.
OsEnvs(e) == {e, EmptyMap, [n \in EnvNames |-> "v"]}

Init ==
    /\ impl \in Impls
    /\ schema \in Schemas
    /\ env \in Envs
    /\ default_keyword \in DefaultKeywords
    /\ other \in Others(NamesOf(schema))
    /\ osenv \in (IF impl = "load" THEN OsEnvs(env) ELSE {env})
    /\ impl = "EnvVars" =>
          /\ other = EmptyMap
          /\ \A i \in DOMAIN schema :
                schema[i].meta = "declared" /\ schema[i].lookups # <<>>
    /\ pc = 1
    /\ status = "loading"
    /\ kwargs = (IF impl = "load" THEN other ELSE EmptyMap)
    /\ value_sources = EmptyMap
    /\ missing = <<>>
    /\ results = EmptyMap
    /\ any_errors = FALSE
    /\ printed = <<>>
    /\ instance = EmptyMap
    /\ instance_sources = EmptyMap
    /\ raised = NoException
    /\ reads = <<>>
    /\ fn = "none"
    /\ arg = <<>>
    /\ ret = <<>>
    /\ HeapIdle
    /\ DictIdle
    /\ PagesIdle

Next ==
    \/ ConstructField
    \/ ConstructFinish
    \/ LoadAndLogField
    \/ LoadAndLogFinish
    \/ LoadField
    \/ LoadFinish
    \/ EnvVarsLoad

Spec == Init /\ [][Next]_vars

(***************************************************************************)
(* config/logging.py: the audit log of an instance                         *)
(***************************************************************************)
\* bool(log) of a declared policy.
bool(x) == IF x = "False" THEN "False" ELSE "True"

\* A variant in which the name decides before the declared policy does:
\* LogPolicySelection rejects it.
_should_be_logged_name_first(f) ==
    IF StartsWithUnderscore(f.name) THEN None
    ELSE IF ContainsRedactWord(f.name) THEN "False"
    ELSE IF f.log = NOTHING THEN "True"
    ELSE IF f.log = None THEN None
    ELSE bool(f.log)

\* _should_be_logged(f): "True" to log the value, "False" to redact it,
\* None not to list the field at all.
_should_be_logged(f) ==
    IF f.log = NOTHING
        THEN IF StartsWithUnderscore(f.name) THEN None
             ELSE IF ContainsRedactWord(f.name) THEN "False"
             ELSE "True"
    ELSE IF f.log = None THEN None
    ELSE bool(f.log)

\* A variant that renders the value of a field it is to redact:
\* AuditSecrecy rejects it.
RECURSIVE format_values_unredacted(_, _, _)
format_values_unredacted(sch, obj, sources) ==
    IF sch = <<>> THEN <<>>
    ELSE LET f == Head(sch)
             source == IF f.name \in DOMAIN sources
                          THEN "(" \o sources[f.name] \o ")"
                          ELSE ""
         IN  (IF _should_be_logged(f) = None THEN <<>>
              ELSE <<f.name \o "=" \o obj[f.name] \o source>>)
             \o format_values_unredacted(Tail(sch), obj, sources)

\* format_values(obj): the lines it yields, for the fields `sch` of obj's
\* class; `sources` is the value-sources mapping kept on obj, if any.
RECURSIVE format_values(_, _, _)
format_values(sch, obj, sources) ==
    IF sch = <<>> THEN <<>>
    ELSE LET f == Head(sch)
             should_be_logged == _should_be_logged(f)
             value == IF should_be_logged = "True" THEN obj[f.name] ELSE "REDACTED"
             source == IF f.name \in DOMAIN sources
                          THEN "(" \o sources[f.name] \o ")"
                          ELSE ""
         IN  (IF should_be_logged = None THEN <<>>
              ELSE <<f.name \o "=" \o value \o source>>)
             \o format_values(Tail(sch), obj, sources)

\* One call of format_values on an instance, its lines collected.
FormatValues ==
    /\ impl = "format_values"
    /\ status = "loading"
    /\ printed' = format_values(schema, instance, instance_sources)
    /\ status' = "rendered"
    /\ UNCHANGED callVars
    /\ UNCHANGED dictVars
    /\ UNCHANGED pageVars
    /\ UNCHANGED heapVars
    /\ UNCHANGED <<impl, schema, env, osenv, other, default_keyword, pc, kwargs,
                   value_sources, missing, results, any_errors, instance,
                   instance_sources, raised, reads>>

(***************************************************************************)
(* The calls that render an audit log: format_values on an instance, and   *)
(* next.py's load_and_log, on schemas whose fields differ in name and in   *)
(* declared log policy.                                                    *)
(***************************************************************************)
AuditFieldNames == {"ab", "_b", "_key", "api_token", "PassWord"}
AuditValues == {"v", "w"}
AuditLookupLists == {<<>>, <<"A">>, <<"A", "B">>}
AuditDefaults == {NoDefault, [kind |-> "literal", value |-> "d"]}
AuditSources == {"from env var A", "default value; A was not set"}

\* The log policies a field may declare: for logging.py a bool or None, for
\* next.py a member of Log; NOTHING when it declares none.
LogMetadata(draft) ==
    IF draft = "load_and_log" THEN {NOTHING, "LOG", "REDACT", "SKIP"}
    ELSE {NOTHING, None, "True", "False"}

AuditFieldsNamed(name, draft) ==
    {[name |-> name, meta |-> "declared", lookups |-> l, default |-> d,
      type |-> "str", log |-> g, converter |-> None, init |-> TRUE] :
        l \in (IF draft = "load_and_log" THEN AuditLookupLists ELSE {<<"A">>}),
        d \in (IF draft = "load_and_log" THEN AuditDefaults ELSE {NoDefault}),
        g \in LogMetadata(draft)}

AuditSchemas(draft) ==
    UNION {{<<f1, f2>> : f1 \in AuditFieldsNamed(n1, draft),
                         f2 \in AuditFieldsNamed(n2, draft)} :
              <<n1, n2>> \in {p \in AuditFieldNames \X {"ab", "api_token"} :
                                  p[1] # p[2]}}

AuditEnvs ==
    {e \in UNION {[S -> AuditValues \cup DefaultKeywords] : S \in SUBSET LookupNames} :
        "B" \in DOMAIN e => e["B"] = "v"}

InitAudit ==
    /\ impl \in {"format_values", "load_and_log"}
    /\ schema \in AuditSchemas(impl)
    /\ env \in (IF impl = "load_and_log" THEN AuditEnvs ELSE {EmptyMap})
    /\ osenv = env
    /\ default_keyword \in DefaultKeywords
    /\ other \in (IF impl = "load_and_log"
                     THEN {EmptyMap, [n \in {schema[1].name} |-> "o"]}
                     ELSE {EmptyMap})
    /\ instance \in (IF impl = "format_values"
                        THEN [NamesOf(schema) -> AuditValues]
                        ELSE {EmptyMap})
    /\ instance_sources \in
          (IF impl = "format_values"
              THEN UNION {[S -> AuditSources] : S \in SUBSET NamesOf(schema)}
              ELSE {EmptyMap})
    /\ pc = 1
    /\ status = "loading"
    /\ kwargs = EmptyMap
    /\ value_sources = EmptyMap
    /\ missing = <<>>
    /\ results = EmptyMap
    /\ any_errors = FALSE
    /\ printed = <<>>
    /\ raised = NoException
    /\ reads = <<>>
    /\ fn = "none"
    /\ arg = <<>>
    /\ ret = <<>>
    /\ HeapIdle
    /\ DictIdle
    /\ PagesIdle

NextAudit ==
    \/ FormatValues
    \/ LoadAndLogField
    \/ LoadAndLogFinish

SpecAudit == InitAudit /\ [][NextAudit]_vars

(***************************************************************************)
(* Functions applied on their own.  A text is a Python str seen as the     *)
(* sequence of its characters; Str wraps it, a container holds its items.  *)
(***************************************************************************)
MaxRaw == 4                       \* longest raw text given to a converter
Alphabet == {"a", "b", ",", " "}
Texts == UNION {[1..n -> Alphabet] : n \in 0..MaxRaw}
Collections == {"list", "set", "tuple"}
NotReturned == [kind |-> "pending", items |-> <<>>]

\* The loader's variables while a function is applied on its own.
LoaderIdle ==
    /\ impl = "none"
    /\ schema = <<>>
    /\ env = EmptyMap
    /\ osenv = EmptyMap
    /\ other = EmptyMap
    /\ default_keyword = _DEFAULT_KEYWORD
    /\ pc = 1
    /\ status = "idle"
    /\ kwargs = EmptyMap
    /\ value_sources = EmptyMap
    /\ missing = <<>>
    /\ results = EmptyMap
    /\ any_errors = FALSE
    /\ printed = <<>>
    /\ instance = EmptyMap
    /\ instance_sources = EmptyMap
    /\ raised = NoException
    /\ reads = <<>>

\* One application of a converter comma_separated(collection).
ApplyCommaSeparated ==
    /\ fn = "_comma_separated_collection"
    /\ ret.kind = "pending"
    /\ ret' = _comma_separated_collection(arg.collection, arg.val)
    /\ UNCHANGED <<fn, arg>>
    /\ UNCHANGED loaderVars
    /\ UNCHANGED dictVars
    /\ UNCHANGED pageVars
    /\ UNCHANGED heapVars

CommaSeparatedArgs ==
    {[collection |-> c, val |-> Str(t)] : c \in Collections, t \in Texts}
    \cup {[collection |-> c, val |-> [kind |-> c, items |-> <<>>]] :
              c \in {"list", "tuple"}}

\* One call of transform_value(value, type_).
ApplyTransformValue ==
    /\ fn = "transform_value"
    /\ ret.kind = "pending"
    /\ ret' = transform_value(arg.value, arg.type_)
    /\ UNCHANGED <<fn, arg>>
    /\ UNCHANGED loaderVars
    /\ UNCHANGED dictVars
    /\ UNCHANGED pageVars
    /\ UNCHANGED heapVars

\* The raw texts and the declared types transform_value is called with.
BoolTexts == {"true", "TRUE", "false", "False", "1", "0", "yes", "Yes", "no", "NO",
              "on", "On", "off", "y", "n", "t", "f", "", "v", "5", "tru"}
TypeNames == {"str", "bool", "Optional[str]", "list[str]", "set[str]",
              "tuple[str]", "int", "float"}
TransformValueArgs ==
    {[value |-> v, type_ |-> t] : v \in BoolTexts \cup {"a, b"}, t \in TypeNames}

InitConv ==
    /\ LoaderIdle
    /\ \/ /\ fn = "_comma_separated_collection"
          /\ arg \in CommaSeparatedArgs
       \/ /\ fn = "transform_value"
          /\ arg \in TransformValueArgs
    /\ ret = NotReturned
    /\ HeapIdle
    /\ DictIdle
    /\ PagesIdle

NextConv ==
    \/ ApplyCommaSeparated
    \/ ApplyTransformValue

SpecConv == InitConv /\ [][NextConv]_vars

(***************************************************************************)
(* A NothingDict under every sequence of its operations.                   *)
(***************************************************************************)
DictKeys == {"a", "b"}
DictValues == {"v", "o"}
PopDefaults == {NOTHING, "d"}

InitDict ==
    /\ LoaderIdle
    /\ fn = "NothingDict"
    /\ arg = <<>>
    /\ ret = NotReturned
    /\ HeapIdle
    /\ data = <<>>
    /\ PagesIdle

\* d[key] = value
DictSet ==
    /\ \E key \in DictKeys, value \in DictValues \cup {NOTHING} :
          /\ data' = dict_setitem(data, key, value)
          /\ fn' = "__setitem__"
          /\ arg' = [data |-> data, key |-> key, value |-> value]
          /\ ret' = [kind |-> "None", items |-> <<>>]
    /\ UNCHANGED loaderVars
    /\ UNCHANGED heapVars
    /\ UNCHANGED pageVars

\* d[key]
DictGetItem ==
    /\ \E key \in DictKeys :
          /\ fn' = "__getitem__"
          /\ arg' = [data |-> data, key |-> key, value |-> NOTHING]
          /\ ret' = LET r == NothingDict_getitem(DictOf(data), key)
                    IN  IF r = "<KeyError>" THEN [kind |-> "KeyError", items |-> <<>>]
                        ELSE IF r = None THEN [kind |-> "None", items |-> <<>>]
                        ELSE [kind |-> "value", items |-> <<r>>]
    /\ UNCHANGED data
    /\ UNCHANGED loaderVars
    /\ UNCHANGED heapVars
    /\ UNCHANGED pageVars

\* d.pop(key) and d.pop(key, default)
DictPop ==
    /\ \E key \in DictKeys, default \in PopDefaults :
          /\ fn' = "pop"
          /\ arg' = [data |-> data, key |-> key, value |-> default]
          /\ ret' = NothingDict_pop(data, key, default).ret
          /\ data' = NothingDict_pop(data, key, default).data
    /\ UNCHANGED loaderVars
    /\ UNCHANGED heapVars
    /\ UNCHANGED pageVars

\* d.popitem()
DictPopItem ==
    /\ fn' = "popitem"
    /\ arg' = [data |-> data, key |-> NOTHING, value |-> NOTHING]
    /\ ret' = NothingDict_popitem(data).ret
    /\ data' = NothingDict_popitem(data).data
    /\ UNCHANGED loaderVars
    /\ UNCHANGED heapVars
    /\ UNCHANGED pageVars

NextDict ==
    \/ DictSet
    \/ DictGetItem
    \/ DictPop
    \/ DictPopItem

SpecDict == InitDict /\ [][NextDict]_vars

(***************************************************************************)
(* provider_common/github.py: paginate_github_with_page.  A URL is a       *)
(* number, 0 where a link is absent; a response is the URL it answers, the *)
(* fault of its status or body, and its `next` and `last` links.           *)
(***************************************************************************)
MaxPages == 3
MaxRequests == MaxPages + 2
URLs == 1..MaxPages
Faults == {"none", "status", "json", "not a list"}

\* session.get(url)
session_get(s, u) == [url |-> u, fault |-> s[u].fault, next |-> s[u].next,
                      last |-> s[u].last]

\* _validate_github_response(response): the exception it raises, "none" when
\* it returns the list.  raise_for_status raises the HTTPError of requests.
_validate_github_response(resp) ==
    CASE resp.fault = "status" -> "requests.exceptions.HTTPError"
      [] resp.fault = "json" -> "requests.JSONDecodeError"
      [] resp.fault = "not a list" -> "ValueError"
      [] OTHER -> "none"

\* get_nested(response.links, "<rel>.url"): the URL of the link, or
\* BadAttributePathError when the response has no such link.
get_nested(resp, rel) ==
    LET link == IF rel = "last" THEN resp.last ELSE resp.next
    IN  IF link = 0 THEN [exc |-> "BadAttributePathError", url |-> 0]
        ELSE [exc |-> "none", url |-> link]

\* The classes the except clause names: the HTTPError of urllib.error,
\* requests.JSONDecodeError, ValueError and BadAttributePathError.
Caught == {"urllib.error.HTTPError", "requests.JSONDecodeError", "ValueError",
           "BadAttributePathError"}

\* What leaves the generator when exc is raised inside its try block while
\* `response` is resp.
Leaves(exc, resp) ==
    IF exc \in Caught THEN [type |-> "GitHubError", response |-> resp]
    ELSE [type |-> exc, response |-> NoResponse]

\* A variant that never takes the page for the last: PagesInLinkOrder
\* rejects it.
is_last_never(u, last) == FALSE

\* url == last_url
is_last(u, last) == u = last

\* The first next() on the generator: from the call to the first yield.
Start ==
    /\ gen = "created"
    /\ LET resp == session_get(session, start_url)
           exc == _validate_github_response(resp)
           last == get_nested(resp, "last")
       IN  /\ response' = resp
           /\ requested' = Append(requested, start_url)
           /\ IF exc # "none"
                 THEN /\ gen' = "raised"
                      /\ escaped' = Leaves(exc, resp)
                      /\ UNCHANGED <<url, last_url, yielded>>
              ELSE IF last.exc # "none"
                 THEN /\ gen' = "raised"
                      /\ escaped' = Leaves(last.exc, resp)
                      /\ UNCHANGED <<url, last_url, yielded>>
              ELSE /\ last_url' = last.url
                   /\ url' = start_url
                   /\ yielded' = Append(yielded, resp)
                   /\ gen' = "suspended"
                   /\ UNCHANGED escaped
    /\ UNCHANGED <<session, start_url>>
    /\ UNCHANGED loaderVars
    /\ UNCHANGED callVars
    /\ UNCHANGED heapVars
    /\ UNCHANGED dictVars

\* A later next(): from the yield to the next yield, to the break or to
\* the exception.
Resume ==
    /\ gen = "suspended"
    /\ is_last(url, last_url) \/ Len(requested) < MaxRequests
    /\ IF is_last(url, last_url)
          THEN /\ gen' = "done"
               /\ UNCHANGED <<url, response, requested, yielded, escaped>>
          ELSE LET next == get_nested(response, "next")
                   resp == session_get(session, next.url)
                   exc == _validate_github_response(resp)
               IN  IF next.exc # "none"
                      THEN /\ gen' = "raised"
                           /\ escaped' = Leaves(next.exc, response)
                           /\ UNCHANGED <<url, response, requested, yielded>>
                      ELSE /\ url' = next.url
                           /\ response' = resp
                           /\ requested' = Append(requested, next.url)
                           /\ IF exc # "none"
                                 THEN /\ gen' = "raised"
                                      /\ escaped' = Leaves(exc, resp)
                                      /\ UNCHANGED yielded
                                 ELSE /\ yielded' = Append(yielded, resp)
                                      /\ UNCHANGED <<gen, escaped>>
    /\ UNCHANGED <<session, start_url, last_url>>
    /\ UNCHANGED loaderVars
    /\ UNCHANGED callVars
    /\ UNCHANGED heapVars
    /\ UNCHANGED dictVars

\* The listings: every response carries the same `last` link, any `next`
\* link or none, and at most one URL answers with a fault.
PageResponses(l) == [fault : Faults, next : 0..MaxPages, last : {l}]
Listings ==
    UNION {{s \in [URLs -> PageResponses(l)] :
              Cardinality({u \in URLs : s[u].fault # "none"}) <= 1} :
           l \in 0..MaxPages}

InitPages ==
    /\ LoaderIdle
    /\ fn = "none"
    /\ arg = <<>>
    /\ ret = NotReturned
    /\ HeapIdle
    /\ DictIdle
    /\ session \in Listings
    /\ start_url = 1
    /\ url = 0
    /\ last_url = 0
    /\ response = NoResponse
    /\ requested = <<>>
    /\ yielded = <<>>
    /\ gen = "created"
    /\ escaped = [type |-> "none", response |-> NoResponse]

NextPages ==
    \/ Start
    \/ Resume

SpecPages == InitPages /\ [][NextPages]_vars

\* The caller keeps asking for the next page until the generator ends.
SpecPagesLive == SpecPages /\ WF_vars(NextPages)

(***************************************************************************)
(* pelorus/structure.py: _handle_attrs_class.  A value is its Python type  *)
(* and what it holds; src maps a key, or the nested path "foo.bar", to the *)
(* value found there.  The loop uses schema for attrs.fields(cls), pc for  *)
(* the field at hand, kwargs for class_kwargs and missing for field_errors.*)
(***************************************************************************)
Primitives == {"int", "float", "str", "bool"}
Classes == Primitives \cup {"Inner"}

\* isinstance(src, target): a bool is an int.
isinstance(value, target) ==
    value.type = target \/ (value.type = "bool" /\ target = "int")

\* A variant that checks nothing: StructureAggregatesFieldErrors rejects it.
_type_check_unchecked(value, target) == "none"

\* _type_check(src, target): the exception raised, "none" when src is returned.
_type_check(value, target) ==
    IF isinstance(value, target) THEN "none" ELSE "TypeError"

\* get_nested(src, nested) if nested else src[field.name]: the value, or
\* the exception of the failed lookup.
field_source(source, field) ==
    LET key == IF field.nested # None THEN field.nested ELSE field.name
    IN  IF key \in DOMAIN source THEN [exc |-> "none", value |-> source[key]]
        ELSE [exc |-> (IF field.nested # None THEN "BadAttributePathError"
                       ELSE "KeyError"),
              value |-> None]

\* cattrs.structure(value, field_type): a checked primitive is converted
\* by its own type; a mapping becomes an Inner when its entries structure,
\* and anything else raises.
cattrs_structure(value, field_type) ==
    IF field_type \in Primitives
        THEN [exc |-> "none", value |-> [type |-> field_type, holds |-> value.holds]]
    ELSE IF value.type = "dict" /\ value.holds = "entries"
        THEN [exc |-> "none", value |-> [type |-> field_type, holds |-> value.holds]]
    ELSE [exc |-> "cattrs.ClassValidationError", value |-> None]

\* The body of the try block for one field: the structured value or the
\* exception that `except Exception` receives.
structure_field(source, field) ==
    LET found == field_source(source, field)
        checked == IF field.type \in Primitives
                      THEN _type_check(found.value, field.type) ELSE "none"
    IN  IF found.exc # "none" THEN [exc |-> found.exc, value |-> None]
        ELSE IF checked # "none" THEN [exc |-> checked, value |-> None]
        ELSE cattrs_structure(found.value, field.type)

\* raise cattrs.ClassValidationError(message, field_errors, cls)
ClassValidationError(name, errs) ==
    [type |-> "ClassValidationError", missing |-> errs,
     message |-> "While structuring " \o name]

\* One iteration of the loop over attrs.fields(cls).  The assertion that
\* the field's type is a class stands before the try block.
HandleField ==
    /\ impl = "_handle_attrs_class"
    /\ status = "loading"
    /\ pc \in DOMAIN schema
    /\ LET field == schema[pc]
           r == structure_field(arg, field)
       IN  IF field.type \notin Classes
              THEN /\ status' = "raised"
                   /\ raised' = Exception("AssertionError")
                   /\ UNCHANGED <<pc, kwargs, missing>>
           ELSE IF r.exc # "none"
              THEN /\ missing' = Append(missing, r.exc)
                   /\ pc' = pc + 1
                   /\ UNCHANGED <<kwargs, status, raised>>
              ELSE /\ kwargs' = SetItem(kwargs, field.name, r.value)
                   /\ pc' = pc + 1
                   /\ UNCHANGED <<missing, status, raised>>
    /\ UNCHANGED <<impl, schema, env, osenv, other, default_keyword,
                   value_sources, results, any_errors, printed, instance,
                   instance_sources, reads>>
    /\ UNCHANGED callVars
    /\ UNCHANGED heapVars
    /\ UNCHANGED dictVars
    /\ UNCHANGED pageVars

\* After the loop: the instance, or one error with every field's error.
HandleFinish ==
    /\ impl = "_handle_attrs_class"
    /\ status = "loading"
    /\ pc = Len(schema) + 1
    /\ IF missing = <<>>
          THEN /\ status' = "constructed"
               /\ instance' = kwargs
               /\ ret' = [kind |-> "returned"]
               /\ UNCHANGED raised
          ELSE /\ status' = "raised"
               /\ raised' = ClassValidationError(ClassName, missing)
               /\ ret' = [kind |-> "raised"]
               /\ UNCHANGED instance
    /\ UNCHANGED <<impl, schema, env, osenv, other, default_keyword, pc, kwargs,
                   value_sources, missing, results, any_errors, printed,
                   instance_sources, reads>>
    /\ UNCHANGED <<fn, arg>>
    /\ UNCHANGED heapVars
    /\ UNCHANGED dictVars
    /\ UNCHANGED pageVars

\* The classes structured: a first field of any type, read by its name or
\* through a nested path, and a second field read by its name.
StructFieldsA ==
    {[name |-> "a", type |-> t, nested |-> n] :
        t \in Classes \cup {"Optional[str]"}, n \in {None, "foo.bar"}}
StructFieldsB == {[name |-> "b", type |-> t, nested |-> None] : t \in {"int", "str"}}
StructClasses == {<<f, g>> : f \in StructFieldsA, g \in StructFieldsB}
                     \cup {<<g, f>> : f \in StructFieldsA, g \in StructFieldsB}
StructValues ==
    {[type |-> "int", holds |-> "2"], [type |-> "str", holds |-> "string!"],
     [type |-> "bool", holds |-> "True"], [type |-> "float", holds |-> "2.5"],
     [type |-> "dict", holds |-> "entries"], [type |-> "dict", holds |-> "nothing"]}
StructSources == UNION {[S -> StructValues] : S \in SUBSET {"a", "b", "foo.bar"}}

InitStruct ==
    /\ impl = "_handle_attrs_class"
    /\ schema \in StructClasses
    /\ env = EmptyMap
    /\ osenv = EmptyMap
    /\ other = EmptyMap
    /\ default_keyword = _DEFAULT_KEYWORD
    /\ pc = 1
    /\ status = "loading"
    /\ kwargs = EmptyMap
    /\ value_sources = EmptyMap
    /\ missing = <<>>
    /\ results = EmptyMap
    /\ any_errors = FALSE
    /\ printed = <<>>
    /\ instance = EmptyMap
    /\ instance_sources = EmptyMap
    /\ raised = NoException
    /\ reads = <<>>
    /\ fn = "_handle_attrs_class"
    /\ arg \in StructSources
    /\ ret = NotReturned
    /\ HeapIdle
    /\ DictIdle
    /\ PagesIdle

NextStruct ==
    \/ HandleField
    \/ HandleFinish

SpecStruct == InitStruct /\ [][NextStruct]_vars

(***************************************************************************)
(* What the claims are stated with.                                        *)
(***************************************************************************)
Finished == status # "loading"
Processed == {i \in DOMAIN schema : i < pc}
HasDefault(f) == f.default.kind # "NOTHING"

\* The lookup list a field is resolved with: the declared one, or the one the
\* draft derives for a field that declares none.
UsedLookups(f) ==
    IF f.meta = "declared" THEN f.lookups
    ELSE IF impl = "load_and_log" THEN get_value_lookups(f)
    ELSE field_env_lookups(f)

HasPresent(L, e) == \E k \in DOMAIN L : L[k] \in DOMAIN e
FirstPresentIdx(L, e) ==
    CHOOSE k \in DOMAIN L :
        L[k] \in DOMAIN e /\ \A j \in DOMAIN L : j < k => L[j] \notin DOMAIN e
FirstPresent(L, e) == L[FirstPresentIdx(L, e)]

\* The environment names looked up for a field, in any environment.
EnvReadsFor(name) ==
    {reads[i][2] : i \in {j \in DOMAIN reads :
                            reads[j][1] \in {"env", "os"} /\ reads[j][3] = name}}

\* The errors collected in `missing` for a field.
ErrorsFor(name) ==
    {missing[i] : i \in {j \in DOMAIN missing : missing[j].name = name}}

\* A field that load_and_log or load takes from `other` before any lookup.
Preempted(f) == impl \in {"load_and_log", "load"} /\ f.name \in DOMAIN other

ExpectedFoundText(A) == "from env var " \o A
ExpectedKeywordText(A, keyword) ==
    "default value (" \o A \o " set to " \o keyword \o ")"
ExpectedUnsetText(L) ==
    IF Len(L) = 1 THEN "default value; " \o L[1] \o " was not set"
    ELSE "default value; none of " \o Join(L, ", ") \o " were set"

\* The failure a field must end in, NoError when it must resolve
\* (EnvironmentConfigLoader: `other` is read only for a field without lookups).
ExpectedError(f) ==
    LET L == UsedLookups(f)
    IN  IF L = <<>>
            THEN IF f.name \in DOMAIN other THEN NoError ELSE MissingOther(f.name)
        ELSE IF ~HasPresent(L, env)
            THEN IF HasDefault(f) THEN NoError ELSE MissingVariable(f.name, L)
        ELSE IF env[FirstPresent(L, env)] = default_keyword /\ ~HasDefault(f)
            THEN MissingDefault(f.name, FirstPresent(L, env))
        ELSE NoError

RECURSIVE ExpectedErrors(_)
ExpectedErrors(sch) ==
    IF sch = <<>> THEN <<>>
    ELSE (IF ExpectedError(Head(sch)) = NoError THEN <<>>
          ELSE <<ExpectedError(Head(sch))>>) \o ExpectedErrors(Tail(sch))

(***************************************************************************)
(* Loads of schemas whose fields have other types than str: the class is   *)
(* declared, then loaded by EnvironmentConfigLoader or by load.            *)
(***************************************************************************)
FieldTypes == {"str", "bool", "int", "float"}
TypedLiteral == [kind |-> "literal", value |-> "5"]

\* The first field: any type, env lookups or none, perhaps a converter of
\* its own.  The second: a str or a bool looked up in B.
TypedFieldsAb ==
    {[name |-> "ab", meta |-> "declared", lookups |-> l, default |-> d,
      type |-> t, log |-> NOTHING, converter |-> c, init |-> TRUE] :
        l \in {<<>>, <<"A">>}, d \in {NoDefault, TypedLiteral},
        t \in FieldTypes, c \in {None, "comma_separated(list)"}}
TypedFieldsB ==
    {[name |-> "b", meta |-> "declared", lookups |-> <<"B">>, default |-> d,
      type |-> t, log |-> NOTHING, converter |-> None, init |-> TRUE] :
        d \in {NoDefault, TypedLiteral}, t \in {"str", "bool"}}
TypedSchemas == {<<f, g>> : f \in TypedFieldsAb, g \in TypedFieldsB}
TypedEnvs ==
    {e \in UNION {[S -> {"5", "on", "v", "yes"}] : S \in SUBSET {"A", "B"}} :
        /\ "A" \in DOMAIN e => e["A"] \in {"5", "on", "v"}
        /\ "B" \in DOMAIN e => e["B"] \in {"yes", "v"}}

InitTyped ==
    /\ impl \in {"construct", "load"}
    /\ schema \in TypedSchemas
    /\ impl = "load" => \A i \in DOMAIN schema : schema[i].converter = None
    /\ env \in TypedEnvs
    /\ osenv = env
    /\ default_keyword = _DEFAULT_KEYWORD
    /\ other \in Others({"ab"})
    /\ pc = 1
    /\ status = "declaring"
    /\ kwargs = (IF impl = "load" THEN other ELSE EmptyMap)
    /\ value_sources = EmptyMap
    /\ missing = <<>>
    /\ results = EmptyMap
    /\ any_errors = FALSE
    /\ printed = <<>>
    /\ instance = EmptyMap
    /\ instance_sources = EmptyMap
    /\ raised = NoException
    /\ reads = <<>>
    /\ fn = "none"
    /\ arg = <<>>
    /\ ret = <<>>
    /\ HeapIdle
    /\ DictIdle
    /\ PagesIdle

NextTyped ==
    \/ DeclareConfig
    \/ DeclareDataclass
    \/ ConstructField
    \/ ConstructFinish
    \/ LoadField
    \/ LoadFinish

SpecTyped == InitTyped /\ [][NextTyped]_vars

(***************************************************************************)
(* Two loads of the same arguments, one after the other, and a caller who  *)
(* then mutates a default collection of the first instance.                *)
(***************************************************************************)
FactoryFields(name, lookups) ==
    {[name |-> name, meta |-> "declared", lookups |-> lookups, default |-> d,
      type |-> "str", log |-> NOTHING, converter |-> None, init |-> TRUE] : d \in Defaults}
FactorySchemas ==
    {<<f, g>> : f \in FactoryFields("ab", <<"A">>) \cup FactoryFields("ab", <<"A", "B">>),
                g \in FactoryFields("b", <<"B">>)}
FactoryEnvs == UNION {[S -> {"v", _DEFAULT_KEYWORD}] : S \in SUBSET {"A", "B"}}

InitFactory ==
    /\ impl \in {"construct", "load_and_log", "load"}
    /\ schema \in FactorySchemas
    /\ env \in FactoryEnvs
    /\ osenv = env
    /\ default_keyword = _DEFAULT_KEYWORD
    /\ other = EmptyMap
    /\ pc = 1
    /\ status = "loading"
    /\ kwargs = EmptyMap
    /\ value_sources = EmptyMap
    /\ missing = <<>>
    /\ results = EmptyMap
    /\ any_errors = FALSE
    /\ printed = <<>>
    /\ instance = EmptyMap
    /\ instance_sources = EmptyMap
    /\ raised = NoException
    /\ reads = <<>>
    /\ fn = "none"
    /\ arg = <<>>
    /\ ret = <<>>
    /\ HeapIdle
    /\ DictIdle
    /\ PagesIdle

\* The caller, holding the instance of a first load, loads again with the
\* same arguments.
LoadAgain ==
    /\ status = "constructed"
    /\ load_no = 1
    /\ load_no' = 2
    /\ first_objects' = objects
    /\ objects' = EmptyMap
    /\ pc' = 1
    /\ status' = "loading"
    /\ kwargs' = (IF impl = "load" THEN other ELSE EmptyMap)
    /\ value_sources' = EmptyMap
    /\ missing' = <<>>
    /\ results' = EmptyMap
    /\ any_errors' = FALSE
    /\ printed' = <<>>
    /\ instance' = EmptyMap
    /\ instance_sources' = EmptyMap
    /\ raised' = NoException
    /\ reads' = <<>>
    /\ UNCHANGED callVars
    /\ UNCHANGED dictVars
    /\ UNCHANGED pageVars
    /\ UNCHANGED <<impl, schema, env, osenv, other, default_keyword, heap>>

\* The caller appends to a default collection of the first instance.
MutateDefault ==
    /\ status = "constructed"
    /\ load_no = 2
    /\ \E n \in DOMAIN first_objects :
          /\ heap[first_objects[n]].items = <<>>
          /\ heap' = [heap EXCEPT ![first_objects[n]].items = <<"x">>]
    /\ UNCHANGED <<objects, first_objects, load_no>>
    /\ UNCHANGED callVars
    /\ UNCHANGED loaderVars
    /\ UNCHANGED dictVars
    /\ UNCHANGED pageVars

NextFactory ==
    \/ ConstructField
    \/ ConstructFinish
    \/ LoadAndLogField
    \/ LoadAndLogFinish
    \/ LoadField
    \/ LoadFinish
    \/ LoadAgain
    \/ MutateDefault

SpecFactory == InitFactory /\ [][NextFactory]_vars

(***************************************************************************)
(* Loads of schemas with a field that is excluded from the constructor.    *)
(***************************************************************************)
InitFieldsAb ==
    {[name |-> "ab", meta |-> "declared", lookups |-> l, default |-> d,
      type |-> "str", log |-> NOTHING, converter |-> None, init |-> i] :
        l \in {<<>>, <<"A">>}, d \in {NoDefault, [kind |-> "literal", value |-> "d"]},
        i \in BOOLEAN}
InitFieldsB ==
    {[name |-> "b", meta |-> "declared", lookups |-> <<"B">>, default |-> d,
      type |-> "str", log |-> NOTHING, converter |-> None, init |-> TRUE] :
        d \in {NoDefault, [kind |-> "literal", value |-> "d"]}}
InitSchemas == {<<f, g>> : f \in InitFieldsAb, g \in InitFieldsB}
                   \cup {<<g, f>> : f \in InitFieldsAb, g \in InitFieldsB}
InitEnvs == UNION {[S -> {"v"}] : S \in SUBSET {"A", "B"}}

InitInit ==
    /\ impl \in {"construct", "load_and_log", "load"}
    /\ schema \in InitSchemas
    /\ env \in InitEnvs
    /\ osenv = env
    /\ default_keyword = _DEFAULT_KEYWORD
    /\ other \in Others({"ab"})
    /\ pc = 1
    /\ status = "loading"
    /\ kwargs = (IF impl = "load" THEN other ELSE EmptyMap)
    /\ value_sources = EmptyMap
    /\ missing = <<>>
    /\ results = EmptyMap
    /\ any_errors = FALSE
    /\ printed = <<>>
    /\ instance = EmptyMap
    /\ instance_sources = EmptyMap
    /\ raised = NoException
    /\ reads = <<>>
    /\ fn = "none"
    /\ arg = <<>>
    /\ ret = <<>>
    /\ HeapIdle
    /\ DictIdle
    /\ PagesIdle

NextInit ==
    \/ ConstructField
    \/ ConstructFinish
    \/ LoadAndLogField
    \/ LoadAndLogFinish
    \/ LoadField
    \/ LoadFinish

SpecInit == InitInit /\ [][NextInit]_vars

(***************************************************************************)
(* The claims.                                                             *)
(***************************************************************************)

\* C1: first match wins.  In EnvironmentConfigLoader and in EnvFinder, a field
\* with a lookup list of which some name is in the snapshot is resolved from
\* the first such name A: no later name of the list is looked up, an
\* ordinary value is the resolved value env[A] with source "from env var A",
\* and the default keyword is answered with A named in the source or in the
\* MissingDefault error.
FirstMatchWins ==
    impl \in {"construct", "load_and_log"} =>
    \A i \in Processed :
        LET f == schema[i]
            name == f.name
            L == UsedLookups(f)
        IN  (L # <<>> /\ HasPresent(L, env) /\ ~Preempted(f)) =>
            LET k == FirstPresentIdx(L, env)
                A == L[k]
            IN  /\ \A j \in DOMAIN L : j > k => L[j] \notin EnvReadsFor(name)
                /\ impl = "construct" =>
                     IF env[A] # default_keyword
                        THEN /\ name \in DOMAIN kwargs
                             /\ kwargs[name] = env[A]
                             /\ value_sources[name] = ExpectedFoundText(A)
                     ELSE IF HasDefault(f)
                        THEN /\ name \in DOMAIN value_sources
                             /\ value_sources[name]
                                  = ExpectedKeywordText(A, default_keyword)
                     ELSE ErrorsFor(name) = {MissingDefault(name, A)}
                /\ impl = "load_and_log" =>
                     /\ name \in DOMAIN results
                     /\ IF env[A] # default_keyword
                           THEN /\ results[name].tag = "FoundEnvVar"
                                /\ results[name].value = env[A]
                                /\ results[name].env_name = A
                        ELSE IF HasDefault(f)
                           THEN /\ results[name].tag = "DefaultSetEnvVar"
                                /\ results[name].env_name = A
                        ELSE results[name] = ErrorEntry(MissingDefault(name, A))

\* C1 witness: EnvironmentConfigLoader has resolved a field whose two lookup
\* names are both set, to different values, from the first of them.
FirstMatchWinsWitness ==
    /\ impl = "construct"
    /\ \E i \in Processed :
          /\ schema[i].meta = "declared"
          /\ Len(schema[i].lookups) = 2
          /\ schema[i].lookups[1] \in DOMAIN env
          /\ schema[i].lookups[2] \in DOMAIN env
          /\ env[schema[i].lookups[1]] # env[schema[i].lookups[2]]
          /\ env[schema[i].lookups[1]] # default_keyword
          /\ schema[i].name \in DOMAIN kwargs
          /\ kwargs[schema[i].name] = env[schema[i].lookups[1]]

\* C2 (as claimed): an empty string is a present value.  In
\* EnvironmentConfigLoader and in load, a field whose first lookup name holds
\* "" in the snapshot is resolved to "" from that name: no later name is
\* looked up, no default is taken and no failure is recorded.
EmptyStringIsPresent ==
    impl \in {"construct", "load"} =>
    \A i \in Processed :
        LET f == schema[i]
            name == f.name
            L == f.lookups
        IN  (/\ f.meta = "declared" /\ L # <<>> /\ ~Preempted(f)
             /\ L[1] \in DOMAIN env /\ env[L[1]] = "") =>
            /\ name \in DOMAIN kwargs
            /\ kwargs[name] = ""
            /\ ErrorsFor(name) = {}
            /\ \A j \in DOMAIN L : j > 1 => L[j] \notin EnvReadsFor(name)
            /\ impl = "construct" => value_sources[name] = ExpectedFoundText(L[1])

\* C3: an env miss ends in the default or in MissingVariable.  In
\* EnvironmentConfigLoader and in EnvFinder, a field none of whose lookup
\* names is in the snapshot resolves, when it has a default, to that default
\* with the source "default value; ..." naming the names tried, and fails,
\* when it has none, with MissingVariable(field name, names tried).
EnvMissDefaultOrMissingVariable ==
    impl \in {"construct", "load_and_log"} =>
    \A i \in Processed :
        LET f == schema[i]
            name == f.name
            L == UsedLookups(f)
        IN  (L # <<>> /\ ~HasPresent(L, env) /\ ~Preempted(f)) =>
            /\ impl = "construct" =>
                 IF HasDefault(f)
                    THEN /\ name \in DOMAIN kwargs
                         /\ kwargs[name] = NOTHING
                         /\ value_sources[name] = ExpectedUnsetText(L)
                         /\ ErrorsFor(name) = {}
                         /\ status = "constructed" => instance[name] = f.default.value
                    ELSE /\ name \notin DOMAIN kwargs
                         /\ ErrorsFor(name) = {MissingVariable(name, L)}
            /\ impl = "load_and_log" =>
                 /\ name \in DOMAIN results
                 /\ IF HasDefault(f)
                       THEN /\ results[name].tag = "UnsetEnvVar"
                            /\ results[name].value = f.default.value
                            /\ results[name].env_lookups = L
                            /\ SourceOf(results[name]) = ExpectedUnsetText(L)
                       ELSE /\ results[name] = ErrorEntry(MissingVariable(name, L))
                            /\ any_errors

\* C3 witness: EnvironmentConfigLoader has built an instance whose field,
\* looked up under two names of which none was set, holds its default.
EnvMissWitness ==
    /\ impl = "construct"
    /\ status = "constructed"
    /\ \E i \in DOMAIN schema :
          /\ schema[i].meta = "declared"
          /\ Len(schema[i].lookups) = 2
          /\ ~HasPresent(schema[i].lookups, env)
          /\ HasDefault(schema[i])
          /\ instance[schema[i].name] = schema[i].default.value
          /\ value_sources[schema[i].name] = "default value; none of A, B were set"

\* C4 (as claimed): the default keyword round trip.  In
\* EnvironmentConfigLoader, EnvVars and EnvFinder, a field with a default whose
\* first present lookup name A holds the keyword resolves to the default, and
\* its source reads "default value (A set to <keyword>)".
DefaultKeywordRoundtrip ==
    impl \in {"construct", "EnvVars", "load_and_log"} =>
    \A i \in Processed :
        LET f == schema[i]
            name == f.name
            L == UsedLookups(f)
        IN  (/\ L # <<>> /\ HasPresent(L, env) /\ ~Preempted(f) /\ HasDefault(f)
             /\ env[FirstPresent(L, env)] = default_keyword) =>
            LET text == ExpectedKeywordText(FirstPresent(L, env), default_keyword)
            IN  /\ impl = "construct" =>
                     /\ name \in DOMAIN kwargs
                     /\ kwargs[name] = NOTHING
                     /\ value_sources[name] = text
                     /\ status = "constructed" => instance[name] = f.default.value
                /\ impl = "EnvVars" =>
                     /\ name \in DOMAIN kwargs
                     /\ kwargs[name] = f.default.value
                     /\ value_sources[name] = text
                /\ impl = "load_and_log" =>
                     /\ name \in DOMAIN results
                     /\ results[name].tag = "DefaultSetEnvVar"
                     /\ results[name].value = f.default.value
                     /\ SourceOf(results[name]) = text

\* C5 (as claimed): the keyword without a default is a collected failure.  In
\* EnvironmentConfigLoader, EnvFinder and load (called with the process
\* environment as its snapshot), a field without a default whose first
\* present lookup name A holds the keyword gets no value and the failure
\* MissingDefault(field name, A), collected with the other failures.
MissingDefaultIsCollected ==
    (impl \in {"construct", "load_and_log", "load"} /\ osenv = env) =>
    \A i \in Processed :
        LET f == schema[i]
            name == f.name
            L == UsedLookups(f)
        IN  (/\ L # <<>> /\ HasPresent(L, env) /\ ~Preempted(f) /\ ~HasDefault(f)
             /\ env[FirstPresent(L, env)] = default_keyword) =>
            LET err == MissingDefault(name, FirstPresent(L, env))
            IN  /\ impl \in {"construct", "load"} =>
                     /\ name \notin DOMAIN kwargs
                     /\ ErrorsFor(name) = {err}
                /\ impl = "load_and_log" =>
                     /\ name \in DOMAIN results
                     /\ results[name] = ErrorEntry(err)
                     /\ any_errors

ConstructedIffNoFailure ==
    (impl \in {"construct", "load_and_log", "load"} /\ Finished) =>
    LET failed == IF impl = "load_and_log"
                     THEN \E n \in DOMAIN results : results[n].tag = "error"
                     ELSE missing # <<>>
    IN  IF failed
           THEN /\ status = "raised"
                /\ raised.type = "MissingConfigDataError"
                /\ instance = EmptyMap
           ELSE /\ status = "constructed"
                /\ DOMAIN instance = NamesOf(schema)

\* C8: override bypass.  In EnvironmentConfigLoader, a field without env
\* lookups whose name is in `other` resolves to the value `other` holds,
\* with no source and no failure, and no environment name is looked up for
\* it, whatever the snapshot holds.
OverrideBypass ==
    impl = "construct" =>
    \A i \in Processed :
        LET f == schema[i]
            name == f.name
        IN  (f.meta = "declared" /\ f.lookups = <<>> /\ name \in DOMAIN other) =>
            /\ name \in DOMAIN kwargs
            /\ kwargs[name] = other[name]
            /\ value_sources[name] = NOTHING
            /\ ErrorsFor(name) = {}
            /\ EnvReadsFor(name) = {}

\* C8 witness: a field without lookups and without a default has been
\* resolved from `other` while every environment name was set.
OverrideBypassWitness ==
    /\ impl = "construct"
    /\ DOMAIN env = EnvNames
    /\ \E i \in Processed :
          /\ schema[i].meta = "declared"
          /\ schema[i].lookups = <<>>
          /\ ~HasDefault(schema[i])
          /\ schema[i].name \in DOMAIN other
          /\ schema[i].name \in DOMAIN kwargs
          /\ kwargs[schema[i].name] = "o"

\* C9 (as claimed): the override map preempts any field.  In each of the
\* three loaders, for a field whose name is in `other`, no environment name
\* is looked up and a constructed instance holds the value `other` holds.
OverridePreemptsAnyField ==
    impl \in {"construct", "load_and_log", "load"} =>
    \A i \in Processed :
        LET name == schema[i].name
        IN  name \in DOMAIN other =>
            /\ EnvReadsFor(name) = {}
            /\ status = "constructed" => instance[name] = other[name]

\* C10 (as claimed): a missing override counts as an error of the load.  A
\* field without env lookups whose name is not in `other` fails with
\* MissingOther(field name); EnvironmentConfigLoader collects it into the
\* aggregate error it raises, load_and_log records it and flags the load as
\* having errors, as it does for MissingVariable and MissingDefault, and
\* neither builds the instance.
MissingOverrideCounts ==
    impl \in {"construct", "load_and_log"} =>
    \A i \in Processed :
        LET f == schema[i]
            name == f.name
        IN  (UsedLookups(f) = <<>> /\ name \notin DOMAIN other) =>
            /\ impl = "construct" =>
                 /\ ErrorsFor(name) = {MissingOther(name)}
                 /\ Finished =>
                       /\ status = "raised"
                       /\ \E j \in DOMAIN raised.missing :
                             raised.missing[j] = MissingOther(name)
            /\ impl = "load_and_log" =>
                 /\ name \in DOMAIN results
                 /\ results[name] = ErrorEntry(MissingOther(name))
                 /\ any_errors
                 /\ Finished => status = "returned_none"

\* What the claim of C11 expects of a raw text: the pieces between the
\* commas, each without the spaces around it; no piece for the empty text.
CommaPositions(raw) == {i \in DOMAIN raw : raw[i] = ","}
NthComma(raw, n) ==
    IF n = 0 THEN 0
    ELSE IF n > Cardinality(CommaPositions(raw)) THEN Len(raw) + 1
    ELSE CHOOSE i \in CommaPositions(raw) :
             Cardinality({j \in CommaPositions(raw) : j < i}) = n - 1
Trimmed(piece) ==
    LET inked == {i \in DOMAIN piece : piece[i] # " "}
    IN  IF inked = {} THEN <<>>
        ELSE SubSeq(piece,
                    CHOOSE i \in inked : \A j \in inked : i <= j,
                    CHOOSE i \in inked : \A j \in inked : i >= j)
ExpectedParts(raw) ==
    IF raw = <<>> THEN <<>>
    ELSE [n \in 1..(Cardinality(CommaPositions(raw)) + 1) |->
             Trimmed(SubSeq(raw, NthComma(raw, n - 1) + 1, NthComma(raw, n) - 1))]

\* C11 (as claimed): collection conversion.  A converter for list, tuple or
\* set of text turns a raw text into that container of the pieces between
\* its commas, each piece stripped of surrounding whitespace, duplicates
\* collapsing in a set; the empty text gives the empty container.
CollectionConversion ==
    (/\ fn = "_comma_separated_collection"
     /\ ret.kind # "pending"
     /\ arg.val.kind = "str") =>
    /\ ret.kind = arg.collection
    /\ IF arg.collection = "set"
          THEN ret.items = {ExpectedParts(arg.val.items)[i] :
                               i \in DOMAIN ExpectedParts(arg.val.items)}
          ELSE ret.items = ExpectedParts(arg.val.items)

\* What the claims about the audit log are stated with.  The policy a field
\* must get: the declared one, else the one its name calls for.
PrivateNames == {"_b", "_key"}
SensitiveNames == {"_key", "api_token", "PassWord"}
ExpectedPolicy(f) ==
    IF f.log = NOTHING
        THEN IF f.name \in PrivateNames THEN "SKIP"
             ELSE IF f.name \in SensitiveNames THEN "REDACT"
             ELSE "LOG"
    ELSE IF f.log \in {"True", "LOG"} THEN "LOG"
    ELSE IF f.log \in {"False", "REDACT"} THEN "REDACT"
    ELSE "SKIP"

\* The line of a field whose value part reads `text`, as the draft at hand
\* writes it around the field's source.
DraftLine(name, text) ==
    IF impl = "format_values"
        THEN name \o "=" \o text
             \o (IF name \in DOMAIN instance_sources
                    THEN "(" \o instance_sources[name] \o ")"
                    ELSE "")
        ELSE name \o "=" \o text \o ", " \o SourceOf(results[name])

\* The value a field has when the log is rendered.
ValueLogged(name) ==
    IF impl = "format_values" THEN instance[name] ELSE results[name].value

\* The lines a log must hold when every field is rendered by its policy.
RECURSIVE ExpectedLogLines(_)
ExpectedLogLines(sch) ==
    IF sch = <<>> THEN <<>>
    ELSE LET f == Head(sch)
             line ==
                IF impl = "load_and_log" /\ results[f.name].tag = "error"
                    THEN <<f.name \o "=ERROR: " \o ErrorStr(results[f.name].err)>>
                ELSE IF impl = "load_and_log" /\ results[f.name].tag = "raw"
                    THEN <<>>
                ELSE IF ExpectedPolicy(f) = "SKIP" THEN <<>>
                ELSE IF ExpectedPolicy(f) = "REDACT"
                    THEN <<DraftLine(f.name, "REDACTED")>>
                ELSE <<DraftLine(f.name, ValueLogged(f.name))>>
         IN  line \o ExpectedLogLines(Tail(sch))

NotSkipped(f) == ExpectedPolicy(f) # "SKIP"

\* What one iteration of load_and_log stores for a field, had the snapshot
\* been e2, and what the call would then print.
EntryUnder(f, e2) ==
    IF f.name \in DOMAIN other THEN RawEntry(other[f.name])
    ELSE LET value == get_value(f, e2, default_keyword)
         IN  IF value = NothingEntry THEN ErrorEntry(MissingOther(f.name))
             ELSE IF value.tag = "error" THEN value
             ELSE [value EXCEPT !.log = _should_log(f)]
ResultsUnder(e2) ==
    [n \in NamesOf(schema) |->
        EntryUnder(schema[CHOOSE i \in DOMAIN schema : schema[i].name = n], e2)]
OutputUnder(e2) ==
    <<IF \E i \in DOMAIN schema :
            /\ schema[i].name \notin DOMAIN other
            /\ get_value(schema[i], e2, default_keyword).tag = "error"
         THEN "While loading config " \o ClassName
              \o ", errors were encountered. All values:"
         ELSE "Loading " \o ClassName \o ", inputs below:">>
    \o PrintedLines(schema, ResultsUnder(e2))

\* The fields of which load_and_log is to print a line: the failed ones and
\* the resolved ones that are not to be skipped.
ShownByLoadAndLog(f) ==
    /\ results[f.name].tag # "raw"
    /\ IsEnvVarWithSource(results[f.name]) => ExpectedPolicy(f) # "SKIP"

\* A snapshot that differs from env at most in values that only fields with
\* policy REDACT or SKIP resolve to: every field has the same kind of
\* outcome and the same source, every logged field the same value.
SameButSecrets(e2) ==
    /\ DOMAIN e2 = DOMAIN env
    /\ \A i \in DOMAIN schema :
          LET a == EntryUnder(schema[i], env)
              b == EntryUnder(schema[i], e2)
          IN  /\ a.tag = b.tag
              /\ a.err = b.err
              /\ SourceOf(a) = SourceOf(b)
              /\ ExpectedPolicy(schema[i]) = "LOG" => a.value = b.value

ClaimedSourceText(entry) ==
    IF entry.tag = "FoundEnvVar" THEN ExpectedFoundText(entry.env_name)
    ELSE IF entry.tag = "UnsetEnvVar" THEN ExpectedUnsetText(entry.env_lookups)
    ELSE ExpectedKeywordText(entry.env_name, entry.default_keyword)

\* The line the claim of C14 gives a field whose value part reads `text`.
ClaimedLine(name, text) ==
    IF impl = "format_values"
        THEN IF name \in DOMAIN instance_sources
                THEN name \o "=" \o text \o " (" \o instance_sources[name] \o ")"
                ELSE name \o "=" \o text
        ELSE name \o "=" \o text \o " (" \o ClaimedSourceText(results[name]) \o ")"

RECURSIVE ClaimedLogLines(_)
ClaimedLogLines(sch) ==
    IF sch = <<>> THEN <<>>
    ELSE LET f == Head(sch)
             line ==
                IF impl = "load_and_log" /\ results[f.name].tag = "error"
                    THEN <<f.name \o "=ERROR: " \o ErrorStr(results[f.name].err)>>
                ELSE IF impl = "load_and_log" /\ results[f.name].tag = "raw"
                    THEN <<>>
                ELSE IF ExpectedPolicy(f) = "SKIP" THEN <<>>
                ELSE IF ExpectedPolicy(f) = "REDACT"
                    THEN <<ClaimedLine(f.name, "REDACTED")>>
                ELSE <<ClaimedLine(f.name, ValueLogged(f.name))>>
         IN  line \o ClaimedLogLines(Tail(sch))

\* C14 (as claimed): the audit line format.  Every loggable field that has
\* a source is rendered as exactly "name=value (source)", one space before
\* the parenthesis, the source reading "from env var N", "default value; N
\* was not set" or "default value; none of N1, N2 were set".
AuditLineFormat ==
    /\ (impl = "format_values" /\ status = "rendered") =>
          printed = ClaimedLogLines(schema)
    /\ (impl = "load_and_log" /\ Finished) =>
          Tail(printed) = ClaimedLogLines(schema)

\* The fields of a finished load that failed, and the message of each.
FailedFields ==
    {i \in DOMAIN schema :
        IF impl = "load_and_log"
            THEN results[schema[i].name].tag = "error"
            ELSE ErrorsFor(schema[i].name) # {}}
FailureText(f) ==
    IF impl = "load_and_log" THEN ErrorStr(results[f.name].err)
    ELSE ErrorStr(CHOOSE e \in ErrorsFor(f.name) : TRUE)

\* The lines a resolved field gets when the load succeeds, as the draft at
\* hand renders it: none for a skipped field.
SuccessLines(f) ==
    IF impl = "load_and_log"
        THEN PrintedFor(f.name, results[f.name])
        ELSE format_values(<<f>>, InitInstance(schema, ConstructKwargs(kwargs)),
                           value_sources)

\* C15 (as claimed): rendering happens even on partial failure.  When a
\* load has ended with at least one failed field, the audit output holds
\* the line "name=ERROR: message" of every failed field and the line of
\* every resolved loggable field, rendered as on success.
RenderedOnPartialFailure ==
    (impl \in {"construct", "load_and_log"} /\ Finished /\ FailedFields # {}) =>
        \A i \in DOMAIN schema :
            IF i \in FailedFields
                THEN schema[i].name \o "=ERROR: " \o FailureText(schema[i])
                        \in RangeOf(printed)
                ELSE RangeOf(SuccessLines(schema[i])) \subseteq RangeOf(printed)

\* C16 (as claimed): a field that declares no env lookups is looked up under
\* exactly one name, its own name in upper case; a field that declares None
\* or an empty sequence is given no environment lookup at all.
UndeclaredLookupIsUpperName ==
    \A i \in Processed :
        LET f == schema[i]
        IN  /\ (f.meta = "undeclared" /\ ~Preempted(f)) =>
                  /\ UsedLookups(f) = <<Upper(f.name)>>
                  /\ EnvReadsFor(f.name) = {Upper(f.name)}
            /\ (f.meta = "declared" /\ f.lookups = <<>>) =>
                  EnvReadsFor(f.name) = {}

\* C17 (as claimed): a load is a function of the schema, the snapshot the
\* caller passed, the override map and the default keyword.  Every
\* environment read goes to the passed snapshot, never to the process
\* environment, and what a field resolves to is the same whatever the
\* process environment holds.
LoadReadsOnlyPassedSnapshot ==
    /\ \A k \in DOMAIN reads : reads[k][1] # "os"
    /\ impl = "load" =>
          \A i \in DOMAIN schema : \A os2 \in OsEnvs(env) :
              load_field(schema[i], env, os2) = load_field(schema[i], env, osenv)

\* The call at hand is transform_value of a raw text to bool, and it is over.
BoolConverted == fn = "transform_value" /\ ret.kind # "pending" /\ arg.type_ = "bool"

\* C19 (as claimed): boolean conversion is strict.  A raw text is accepted
\* only if, whatever the case of its letters, it is one of true, false, 1,
\* 0, yes, no; every other text, "on", "off", "y", "t" and "" among them, is
\* a conversion error.
BoolConversionStrict ==
    BoolConverted =>
        IF lower(Chars(arg.value)) \in
              {<<"t", "r", "u", "e">>, <<"1">>, <<"y", "e", "s">>}
            THEN ret.kind = "int" /\ ret.items = 1
        ELSE IF lower(Chars(arg.value)) \in
              {<<"f", "a", "l", "s", "e">>, <<"0">>, <<"n", "o">>}
            THEN ret.kind = "int" /\ ret.items = 0
        ELSE ret.kind = "ValueError"

\* C19 (amended): boolean conversion is by strtobool's table.  Whatever the
\* case of its letters, a raw text that is one of y, yes, t, true, on, 1
\* gives true (the integer 1), one of n, no, f, false, off, 0 gives false
\* (the integer 0), and every other text, the empty one included, is a
\* ValueError.
BoolConversionTable ==
    BoolConverted =>
        IF arg.value \in {"true", "TRUE", "1", "yes", "Yes", "on", "On", "y", "t"}
            THEN ret.kind = "int" /\ ret.items = 1
        ELSE IF arg.value \in {"false", "False", "0", "no", "NO", "off", "n", "f"}
            THEN ret.kind = "int" /\ ret.items = 0
        ELSE ret.kind = "ValueError"

\* C19 witness: the text "On" has been converted to true, although it is
\* not among the six words of the claim.
BoolConversionWitness ==
    /\ BoolConverted
    /\ arg.value = "On"
    /\ ret = PyValue("int", 1)

\* A field that has env lookups and a declared type for which the draft at
\* hand has no conversion, no converter of its own being given: bool and
\* float for the attrs classes, int and float for load's dataclasses.
UnconvertibleWithLookups(f) ==
    /\ f.lookups # <<>>
    /\ f.converter = None
    /\ f.type \in (IF impl = "construct" THEN {"bool", "float"} ELSE {"int", "float"})

\* C18 (as claimed): a field with env lookups whose type has no registered
\* converter is rejected when the schema is declared, not during load.  A
\* schema that holds one never gets as far as a load; a schema is rejected
\* only for such a field (one with lookups disabled is accepted), by a
\* TypeError of its own: nothing has been read or collected by then.
UnsupportedTypeRejectedAtDeclaration ==
    /\ (\E i \in DOMAIN schema : UnconvertibleWithLookups(schema[i])) =>
          status \in {"declaring", "rejected"}
    /\ status = "rejected" =>
          /\ \E i \in DOMAIN schema : UnconvertibleWithLookups(schema[i])
          /\ raised = Exception("TypeError")
          /\ missing = <<>>
          /\ reads = <<>>

\* A field whose raw text from the environment is malformed for its type:
\* a bool field with a text that is no truth word, an int field with a text
\* that is no number.  The field is not taken from other, and the type is
\* one the draft at hand converts.
MalformedText(f) ==
    /\ ~Preempted(f)
    /\ f.converter = None \/ f.converter = "int"
    /\ f.lookups # <<>>
    /\ f.lookups[1] \in DOMAIN env
    /\ \/ /\ f.type = "bool"
          /\ impl = "load"
          /\ env[f.lookups[1]] \notin {"yes", "on"}
       \/ /\ f.type = "int"
          /\ impl = "construct"
          /\ env[f.lookups[1]] # "5"

\* C20 (as claimed): a conversion error on one field does not abort the
\* load at that field.  When a load is over and a field's text was
\* malformed, every field has been resolved, and the one error raised is
\* the aggregate MissingConfigDataError, which reports the field.
ConversionErrorIsAggregated ==
    (Finished /\ status \notin {"declaring", "rejected"}) =>
        \A i \in DOMAIN schema :
            MalformedText(schema[i]) =>
                /\ pc = Len(schema) + 1
                /\ status = "raised"
                /\ raised.type = "MissingConfigDataError"
                /\ \E k \in DOMAIN raised.missing :
                      raised.missing[k].name = schema[i].name

\* A field of a finished typed load that resolved to its default: it has
\* one, and none of its lookup names is set.
ResolvedToDefault(f) ==
    /\ ~Preempted(f)
    /\ f.lookups # <<>>
    /\ HasDefault(f)
    /\ ~HasPresent(f.lookups, env)
\* A field of a finished typed load that is supplied by the override map.
ResolvedToOverride(f) ==
    /\ f.name \in DOMAIN other
    /\ impl = "construct" => f.lookups = <<>>

\* What reaches the instance for the i-th field, with the kind the
\* constructor's converter gave it ("object": no converter touched it).
Reaching(i) ==
    IF impl = "construct"
        THEN Converted(schema, ConstructKwargs(kwargs))[i]
        ELSE PyValue("object", instance[schema[i].name])

\* C21 (as claimed): the type converter is applied only to raw strings that
\* came from the environment.  In a constructed instance, a field that
\* resolved to its default holds the default unchanged and a field supplied
\* by the override map holds the override unchanged, no converter having
\* been run on either.
ConverterOnlyOnEnvText ==
    status = "constructed" =>
        \A i \in DOMAIN schema :
            /\ ResolvedToDefault(schema[i]) =>
                  /\ Reaching(i).kind = "object"
                  /\ Reaching(i).items = schema[i].default.value
            /\ ResolvedToOverride(schema[i]) =>
                  /\ Reaching(i).kind = "object"
                  /\ Reaching(i).items = other[schema[i].name]

\* A processed field of the load at hand whose resolution fell back to a
\* default that is a factory: none of the names the draft looks up is set,
\* or (where the draft knows the keyword) the first one set holds it.
FellBackToFactory(f) ==
    /\ f.default.kind = "factory"
    /\ UsedLookups(f) # <<>>
    /\ ~Preempted(f)
    /\ \/ ~HasPresent(UsedLookups(f), env)
       \/ /\ impl # "load"
          /\ HasPresent(UsedLookups(f), env)
          /\ env[FirstPresent(UsedLookups(f), env)] = default_keyword

\* The fields whose resolution is over, factory call included: those the
\* loop has passed, and for the attrs constructor those of a built instance.
Resolved ==
    IF impl = "construct"
        THEN (IF status = "constructed" THEN DOMAIN schema ELSE {})
        ELSE Processed

\* The objects made for a field in the load at hand.
MadeFor(name) == {k \in DOMAIN heap : heap[k].for = name /\ heap[k].load = load_no}

\* C22: a default factory is called fresh for every resolution.  A field
\* that falls back to its factory default has exactly one object made for
\* it in that load, and holds it; a field that found an ordinary value or
\* has a literal default has none made.  A second load shares no object
\* with the first, and what a caller appends to a default collection of the
\* first instance is not seen in the second.
FactoryFreshPerResolution ==
    /\ \A i \in DOMAIN schema :
          LET f == schema[i]
          IN  IF i \in Resolved /\ FellBackToFactory(f)
                 THEN /\ Cardinality(MadeFor(f.name)) = 1
                      /\ f.name \in DOMAIN objects
                      /\ objects[f.name] \in MadeFor(f.name)
                 ELSE /\ MadeFor(f.name) = {}
                      /\ f.name \notin DOMAIN objects
    /\ \A n \in DOMAIN objects : \A m \in DOMAIN first_objects :
          objects[n] # first_objects[m]
    /\ \A n \in DOMAIN objects : heap[objects[n]].items = <<>>

\* C22 witness: both loads fell back to the factory of ab, and the caller
\* has appended to the first instance's collection.
FactoryFreshWitness ==
    /\ load_no = 2
    /\ status = "constructed"
    /\ "ab" \in DOMAIN objects
    /\ "ab" \in DOMAIN first_objects
    /\ heap[first_objects["ab"]].items = <<"x">>
    /\ heap[objects["ab"]].items = <<>>

\* Every lookup made for a field, in the override map or an environment.
LookupsFor(name) == {k \in DOMAIN reads : reads[k][3] = name}

\* C23 (as claimed): a field excluded from the constructor (init=False)
\* takes no part in loading.  Nothing is looked up for it in the override
\* map or the environment, it gives no failure, no value is kept for it to
\* pass to the constructor, and a load in which every other field resolved
\* ends in an instance.
InitFalseFieldsSkipped ==
    \A i \in DOMAIN schema :
        ~schema[i].init =>
            /\ LookupsFor(schema[i].name) = {}
            /\ ErrorsFor(schema[i].name) = {}
            /\ schema[i].name \notin DOMAIN results
            /\ impl # "load" => schema[i].name \notin DOMAIN kwargs
            /\ raised.type # "TypeError"

\* The description the path taken by a resolved field must be recorded with.
ExpectedProvenance(f) ==
    LET L == UsedLookups(f)
    IN  IF ~HasPresent(L, env) THEN ExpectedUnsetText(L)
        ELSE IF env[FirstPresent(L, env)] = default_keyword
            THEN ExpectedKeywordText(FirstPresent(L, env), default_keyword)
        ELSE ExpectedFoundText(FirstPresent(L, env))

\* C24 (as claimed): provenance.  On the instance EnvironmentConfigLoader
\* built, the provenance map shows no name of a field supplied by the
\* override map, shows the name of every field resolved from the environment
\* or from a default, and looking such a name up gives the description of
\* the path taken.
ProvenanceMatchesPath ==
    (impl = "construct" /\ status = "constructed") =>
    \A i \in DOMAIN schema :
        LET f == schema[i]
        IN  IF UsedLookups(f) = <<>>
               THEN ~NothingDict_contains(instance_sources, f.name)
               ELSE /\ NothingDict_contains(instance_sources, f.name)
                    /\ NothingDict_getitem(instance_sources, f.name)
                           = ExpectedProvenance(f)

\* The entries of a NothingDict that are to be exposed, oldest first.
Exposed(entries) == SelectSeq(entries, IsShown)
ExposedKeys(entries) == {Exposed(entries)[i].key : i \in DOMAIN Exposed(entries)}
StoredValue(entries, key) ==
    (CHOOSE e \in RangeOf(entries) : e.key = key).value

\* C25 (as claimed): a NothingDict treats a stored NOTHING as absence.  After
\* any sequence of operations, "in", iteration, keys, values, items and len
\* show exactly the entries whose value is not NOTHING; d[key] returned the
\* stored value of a shown key and raised KeyError for any other; pop
\* returned the stored value of a shown key, else the default given, else
\* raised KeyError; popitem, when an entry was shown, returned the key and
\* the value of a shown entry.
NothingIsAbsence ==
    /\ \A key \in DictKeys :
          NothingDict_contains(DictOf(data), key) <=> key \in ExposedKeys(data)
    /\ NothingDict_keys(DictOf(data)) = ExposedKeys(data)
    /\ NothingDict_iter(data) = [i \in DOMAIN Exposed(data) |-> Exposed(data)[i].key]
    /\ NothingDict_values(data) = [i \in DOMAIN Exposed(data) |-> Exposed(data)[i].value]
    /\ NothingDict_items(data) =
          [i \in DOMAIN Exposed(data) |-> <<Exposed(data)[i].key, Exposed(data)[i].value>>]
    /\ NothingDict_len(data) = Len(Exposed(data))
    /\ fn = "__getitem__" =>
          ret = (IF arg.key \in ExposedKeys(arg.data)
                    THEN [kind |-> "value", items |-> <<StoredValue(arg.data, arg.key)>>]
                    ELSE [kind |-> "KeyError", items |-> <<>>])
    /\ fn = "pop" =>
          ret = (IF arg.key \in ExposedKeys(arg.data)
                    THEN [kind |-> "value", items |-> <<StoredValue(arg.data, arg.key)>>]
                 ELSE IF arg.value # NOTHING
                    THEN [kind |-> "value", items |-> <<arg.value>>]
                 ELSE [kind |-> "KeyError", items |-> <<>>])
    /\ (fn = "popitem" /\ Exposed(arg.data) # <<>>) =>
          /\ ret.kind = "value"
          /\ Len(ret.items) = 2
          /\ \E e \in RangeOf(Exposed(arg.data)) : ret.items = <<e.key, e.value>>

\* C26: a load leaves its inputs as they were.  No step of a load, in any
\* loader, changes the environment snapshot, the process environment or the
\* override map, whether the load ends in an instance or in an error.
InputsUnchanged ==
    [][env' = env /\ osenv' = osenv /\ other' = other]_vars

\* C26 witness: load has built an instance from a non-empty override map
\* and from values it found itself and stored next to the overrides.
InputsUnchangedWitness ==
    /\ impl = "load"
    /\ status = "constructed"
    /\ other # EmptyMap
    /\ DOMAIN kwargs # DOMAIN other
    /\ \A n \in DOMAIN other : kwargs[n] = other[n]

\* The text an error of each kind is to render as.
ClaimedErrorText(e) ==
    IF e.kind = "MissingVariable"
        THEN IF Len(e.env_lookups) = 1
                THEN e.name \o " was not found in env var " \o e.env_lookups[1]
                ELSE e.name \o " was not found in any of " \o Join(e.env_lookups, ",")
    ELSE IF e.kind = "MissingDefault"
        THEN e.name \o " was set to " \o default_keyword \o " in env var "
             \o e.var_containing_default \o " but there was no default set"
    ELSE e.name \o " had environment lookups disabled, but was not passed in to load's other dict."

\* The failure of each field of sch that must fail, in declaration order;
\* load takes a field named in the override map from there.
RECURSIVE ClaimedFailures(_)
ClaimedFailures(sch) ==
    IF sch = <<>> THEN <<>>
    ELSE (IF Preempted(Head(sch)) \/ ExpectedError(Head(sch)) = NoError THEN <<>>
          ELSE <<ExpectedError(Head(sch))>>) \o ClaimedFailures(Tail(sch))

\* Whether load sees what the claim is about: it reads the process
\* environment, not the snapshot, and knows no default keyword (C17, C5).
LoadSeesSnapshot ==
    /\ osenv = env
    /\ \A n \in DOMAIN env : env[n] # default_keyword

\* C27: the aggregate error.  When construct or load (reading the snapshot
\* it was given, with no name set to the keyword) raises the aggregate
\* error, the error holds exactly one entry for each field that failed and
\* none for a resolved one, in declaration order, and its message is the
\* texts of the entries, each rendered by its kind: MissingVariable with the
\* one lookup name or the comma-joined names, MissingDefault with the name
\* that held the keyword, MissingOther with the field.
AggregateListsFailuresByKind ==
    (/\ impl \in {"construct", "load"}
     /\ impl = "load" => LoadSeesSnapshot
     /\ status = "raised"
     /\ raised.type = "MissingConfigDataError") =>
    /\ raised.missing = ClaimedFailures(schema)
    /\ raised.message =
          "Config for " \o ClassName \o " is missing data: "
          \o Join([i \in DOMAIN raised.missing |-> ClaimedErrorText(raised.missing[i])],
                  "\n")

\* C27 witness: load has raised an aggregate of two entries, a
\* MissingVariable looked up under two names and then a MissingOther.
AggregateByKindWitness ==
    /\ impl = "load"
    /\ LoadSeesSnapshot
    /\ status = "raised"
    /\ Len(raised.missing) = 2
    /\ raised.missing[1].kind = "MissingVariable"
    /\ Len(raised.missing[1].env_lookups) = 2
    /\ raised.missing[2].kind = "MissingOther"

\* The URLs of a listing in link order: from u along the `next` links, to
\* the page the `last` link of the first response names, at most n of them.
RECURSIVE LinkOrder(_, _)
LinkOrder(u, n) ==
    IF n = 0 THEN <<>>
    ELSE <<u>> \o (IF u = session[start_url].last \/ session[u].next = 0 THEN <<>>
                   ELSE LinkOrder(session[u].next, n - 1))
UrlsOf(responses) == [i \in DOMAIN responses |-> responses[i].url]
IsPrefix(p, q) == Len(p) <= Len(q) /\ \A i \in DOMAIN p : p[i] = q[i]

\* The `next` links lead from start_url to the `last` URL, and every page on
\* the way answers with a list.
ChainReachesLast ==
    LET chain == LinkOrder(start_url, MaxPages)
    IN  /\ chain[Len(chain)] = session[start_url].last
        /\ \A i \in DOMAIN chain : session[chain[i]].fault = "none"

\* The pages yielded so far are the first pages of the listing, each the
\* response of its URL; no request follows that of the last page; a
\* generator that ended has yielded them all and requested nothing else.
PagesYieldedInOrder ==
    /\ IsPrefix(UrlsOf(yielded), LinkOrder(start_url, MaxRequests))
    /\ \A i \in DOMAIN yielded : yielded[i] = session_get(session, yielded[i].url)
    /\ ChainReachesLast =>
          \A i, j \in DOMAIN yielded : i # j => yielded[i].url # yielded[j].url
    /\ \A i \in DOMAIN requested :
          requested[i] = session[start_url].last => i = Len(requested)
    /\ gen = "done" =>
          /\ UrlsOf(yielded) = LinkOrder(start_url, MaxRequests)
          /\ yielded[Len(yielded)].url = session[start_url].last
          /\ requested = UrlsOf(yielded)

\* C28: paginate_github_with_page yields the pages of a listing in link
\* order, each once, from the page at start_url to the page the `last`
\* link of the first response names; once that page has been requested no
\* other request is made; and when the `next` links lead to the `last` URL
\* through pages that answer with a list, a listing of one page included,
\* the generator ends.
PagesInLinkOrder ==
    /\ []PagesYieldedInOrder
    /\ (gen = "created" /\ ChainReachesLast) ~> (gen = "done")

\* C28 witness: the generator has ended after yielding every page of a
\* listing of MaxPages pages.
PagesInLinkOrderWitness ==
    /\ gen = "done"
    /\ Len(yielded) = MaxPages
    /\ Len(requested) = MaxPages

\* C29 (as claimed): every failure reaches the caller as a GitHubError with
\* the offending response.  Once a response with a fault (a status that is
\* not 2xx, a body that is not JSON, JSON that is not a list) has been
\* received, or the `next` link was needed and absent, or the first
\* response had no `last` link, the generator has raised GitHubError
\* carrying that response, the pages yielded before are still yielded, and
\* no exception of another type ever leaves it.
FailuresAreGitHubErrors ==
    /\ gen = "raised" =>
          /\ escaped.type = "GitHubError"
          /\ escaped.response = response
          /\ \/ response.fault # "none"
             \/ response.next = 0
             \/ (Len(requested) = 1 /\ response.last = 0)
          /\ IsPrefix(UrlsOf(yielded), requested)
    /\ (response.fault # "none" \/ (Len(requested) = 1 /\ response.last = 0)) =>
          gen = "raised"

\* Whether a value is of the type a field declares, and the error each
\* field of a class must give for a source, "none" when it must structure.
RightType(value, type) ==
    IF type = "int" THEN value.type \in {"int", "bool"}
    ELSE IF type = "Inner" THEN value = [type |-> "dict", holds |-> "entries"]
    ELSE value.type = type
ClaimedFieldError(f) ==
    IF f.nested = None
        THEN IF f.name \notin DOMAIN arg THEN "KeyError"
             ELSE IF RightType(arg[f.name], f.type) THEN "none"
             ELSE IF f.type \in Primitives THEN "TypeError"
             ELSE "cattrs.ClassValidationError"
        ELSE IF f.nested \notin DOMAIN arg THEN "BadAttributePathError"
             ELSE IF RightType(arg[f.nested], f.type) THEN "none"
             ELSE IF f.type \in Primitives THEN "TypeError"
             ELSE "cattrs.ClassValidationError"
ClaimedFieldErrors ==
    LET failed(i) == ClaimedFieldError(schema[i]) # "none"
        idx == SelectSeq([i \in DOMAIN schema |-> i], failed)
    IN  [k \in DOMAIN idx |-> ClaimedFieldError(schema[idx[k]])]

====
